---- MODULE Spec2Model ----
(***************************************************************************)
(* A model of the WhatsApp gateway: the webhook ingestor, the rule engine, *)
(* the rule-set store and the chat sync job.                               *)
(*                                                                         *)
(* Conventions.                                                            *)
(*  - An optional field of a JavaScript object is a sequence of length 0   *)
(*    (absent / undefined / null) or 1 (present): <<>> or <<v>>.           *)
(*  - A string the code inspects (message text, keywords) is a sequence of *)
(*    one-character strings; a JID "user@server" is [user, server].        *)
(*  - The Store's clock is `now`, in whole seconds (TIMESTAMP columns).    *)
(*  - One action is one HTTP handler run to completion, except the sync    *)
(*    job and the webhook invocations of `runs`, which are split at their  *)
(*    awaits.                                                              *)
(***************************************************************************)
EXTENDS Integers, Sequences, FiniteSets, TLC

VARIABLES
  wa_message,       \* table wa_message: sequence of rows, row id = position
  wa_chat,          \* table wa_chat: function chat id -> row
  wa_ruleset,       \* table wa_ruleset: the singleton row id = 1
  wa_rule_fire,     \* table wa_rule_fire: sequence of rows
  wa_cooldown,      \* table wa_cooldown: set of rows, key (rule_id, scope_key)
  wa_event_log,     \* table wa_event_log: sequence of rows
  rulesCache,       \* RuleEngine.rulesCache
  haCalls,          \* service calls that reached the orchestrator
  waSends,          \* text messages handed to the provider
  now,              \* the Store's clock, seconds
  skew,             \* gateway clock minus Store clock, seconds
  refreshProgress,  \* the sync progress record of createWaRoutes
  jobs,             \* the background sync jobs started so far: position and locals
  timers,           \* pending setTimeout callbacks: set of due instants
  upstream,         \* what the provider's listing endpoints hold
  lastOp,           \* the last request of the rule and chat routes, and its response
  delivered,        \* history: one record per webhook invocation, in order
  runs              \* webhook invocations followed await by await: position and locals

storeVars == <<wa_message, wa_chat, wa_ruleset, wa_rule_fire, wa_cooldown, wa_event_log>>
engineVars == <<rulesCache, haCalls, waSends>>
syncVars == <<refreshProgress, jobs, timers, upstream>>
vars == <<wa_message, wa_chat, wa_ruleset, wa_rule_fire, wa_cooldown, wa_event_log,
          rulesCache, haCalls, waSends, now, skew, refreshProgress, jobs, timers,
          upstream, lastOp, delivered, runs>>

----------------------------------------------------------------------------
\* Bounds of the model.

MaxDeliveries == 2     \* webhook invocations in one behaviour
MaxTime == 2           \* one-second ticks of the Store's clock
MaxSaves == 2          \* saves on top of the first saved rule set
MaxSyncs == 2          \* sync jobs started in one behaviour

\* setTimeout(..., 30000): the delay of the reset to idle, in seconds.
ResetDelay == 30

----------------------------------------------------------------------------
\* JavaScript helpers.

Has(o) == o # <<>>
Val(o) == o[1]
Some(v) == <<v>>
None == <<>>

Min(a, b) == IF a < b THEN a ELSE b

\* s.substring(0, n)
Substring0(s, n) == SubSeq(s, 1, Min(Len(s), n))

\* String.prototype.toLowerCase, on the letters the model's texts use.
LowerChar(c) ==
  CASE c = "P" -> "p"
    [] c = "H" -> "h"
    [] c = "O" -> "o"
    [] OTHER -> c

toLowerCase(s) == [i \in 1..Len(s) |-> LowerChar(s[i])]

\* s.startsWith(p)
startsWith(s, p) == Len(p) <= Len(s) /\ SubSeq(s, 1, Len(p)) = p

\* s.includes(p)
includes(s, p) ==
  \E k \in 0..(Len(s) - Len(p)) : SubSeq(s, k + 1, k + Len(p)) = p

\* id.endsWith('@' + server): a JID is [user, server]; server "" is an id without '@'.
endsWithServer(jid, server) == jid.server = server

NoJid == [user |-> "", server |-> ""]

\* a || b on strings/JIDs that may be absent or empty
OrJid(a, b) == IF Has(a) /\ Val(a) # NoJid THEN Val(a) ELSE b

----------------------------------------------------------------------------
\* Configuration (loadConfig).

allowedServices == {"script.turn_on", "automation.trigger"}
instanceName == "HomeAssistant"

----------------------------------------------------------------------------
\* Collaborators.

\* HAClient.callService(service, target, data, allowList): the allow-list guard
\* comes first; a refused call never reaches the orchestrator.  `up` is whether
\* the orchestrator answers this request.
callService(service, target, data, allowList, up) ==
  IF service \notin allowList
    THEN [reached |-> FALSE, success |-> FALSE, error |-> Some("service not allowed")]
    ELSE IF up
      THEN [reached |-> TRUE, success |-> TRUE, error |-> None]
      ELSE [reached |-> TRUE, success |-> FALSE, error |-> Some("orchestrator request failed")]

\* EvolutionClient.sendTextMessage: one POST; it throws when the provider fails.
sendTextMessage(instance, to, text, up) ==
  [post |-> [instance |-> instance, number |-> to, text |-> text], threw |-> ~up]

\* A provider listing endpoint answers [ok, data]: whether the request
\* succeeded, and the raw chat objects it returned.  A raw chat object is
\* [id, remoteJid, subject, name, pushName, timestamp, lastMsgTimestamp], all
\* optional.  A Chat is [id, type, name, lastMessageAt].

UnknownGroup == <<"U", "n", "k", "n", "o", "w", "n", " ", "G", "r", "o", "u", "p">>
Unknown == <<"U", "n", "k", "n", "o", "w", "n">>

\* a || b on optional values
OrOpt(a, b) == IF Has(a) THEN a ELSE b

\* x?.endsWith('@' + server) on an optional JID
OptEndsWith(x, server) == Has(x) /\ endsWithServer(Val(x), server)

\* id?.split('@')[0]: the user part, kept as one chunk
UserPart(id) == IF Has(id) /\ Val(id).user # "" THEN Some(<<Val(id).user>>) ELSE None

\* A listing that asks both endpoints and returns what either holds, each id
\* once.
listGroupsUnion(up) ==
  LET primary == up.fetchAllGroups
      chats == up.findChats
      first == IF primary.ok
                 THEN [i \in 1..Len(primary.data) |->
                         [id |-> primary.data[i].id, type |-> "group",
                          name |-> Val(OrOpt(primary.data[i].subject,
                                         OrOpt(primary.data[i].name, Some(UnknownGroup)))),
                          lastMessageAt |-> primary.data[i].timestamp]]
                 ELSE <<>>
      groups == SelectSeq(chats.data,
                  LAMBDA c : (OptEndsWith(c.id, "g.us") \/ OptEndsWith(c.remoteJid, "g.us"))
                             /\ \A i \in 1..Len(first) : first[i].id # OrOpt(c.id, c.remoteJid))
      second == IF chats.ok
                  THEN [i \in 1..Len(groups) |->
                          [id |-> OrOpt(groups[i].id, groups[i].remoteJid), type |-> "group",
                           name |-> Val(OrOpt(groups[i].name,
                                          OrOpt(groups[i].pushName,
                                            OrOpt(groups[i].subject, Some(UnknownGroup))))),
                           lastMessageAt |-> groups[i].lastMsgTimestamp]]
                  ELSE <<>>
  IN first \o second

\* EvolutionClient.listGroups: the primary endpoint, and the chats endpoint
\* when the primary fails or returns nothing.
listGroups(up) ==
  LET primary == up.fetchAllGroups
      chats == up.findChats
      groups == SelectSeq(chats.data,
                  LAMBDA c : OptEndsWith(c.id, "g.us") \/ OptEndsWith(c.remoteJid, "g.us"))
  IN IF primary.ok /\ Len(primary.data) > 0
       THEN [i \in 1..Len(primary.data) |->
               [id |-> primary.data[i].id, type |-> "group",
                name |-> Val(OrOpt(primary.data[i].subject,
                               OrOpt(primary.data[i].name, Some(UnknownGroup)))),
                lastMessageAt |-> primary.data[i].timestamp]]
     ELSE IF chats.ok
       THEN [i \in 1..Len(groups) |->
               [id |-> OrOpt(groups[i].id, groups[i].remoteJid), type |-> "group",
                name |-> Val(OrOpt(groups[i].name,
                               OrOpt(groups[i].pushName,
                                 OrOpt(groups[i].subject, Some(UnknownGroup))))),
                lastMessageAt |-> groups[i].lastMsgTimestamp]]
     ELSE <<>>

\* EvolutionClient.listContacts: the primary endpoint, and the chats endpoint
\* when the primary fails or returns nothing.
listContacts(up) ==
  LET primary == up.findContacts
      chats == up.findChats
      direct == SelectSeq(chats.data,
                  LAMBDA c : LET id == OrOpt(c.id, c.remoteJid)
                             IN OptEndsWith(id, "s.whatsapp.net") \/ OptEndsWith(id, "c.us"))
  IN IF primary.ok /\ Len(primary.data) > 0
       THEN [i \in 1..Len(primary.data) |->
               [id |-> OrOpt(primary.data[i].id, primary.data[i].remoteJid), type |-> "direct",
                name |-> Val(OrOpt(primary.data[i].pushName,
                               OrOpt(primary.data[i].name,
                                 OrOpt(UserPart(primary.data[i].id), Some(Unknown))))),
                lastMessageAt |-> None]]
     ELSE IF chats.ok
       THEN [i \in 1..Len(direct) |->
               [id |-> OrOpt(direct[i].id, direct[i].remoteJid), type |-> "direct",
                name |-> Val(OrOpt(direct[i].name,
                               OrOpt(direct[i].pushName,
                                 OrOpt(UserPart(OrOpt(direct[i].id, direct[i].remoteJid)),
                                       Some(Unknown))))),
                lastMessageAt |-> direct[i].lastMsgTimestamp]]
     ELSE <<>>

----------------------------------------------------------------------------
\* The rule engine (class RuleEngine).

DefaultPriority == 100
MatchedTextMax == 500

\* (a.priority || 100)
sortKey(r) == IF Has(r.priority) /\ Val(r.priority) # 0 THEN Val(r.priority) ELSE DefaultPriority

\* One step of the stable sort: r goes after every element whose key is <= its own.
insertByPriority(sorted, r) ==
  LET k == Cardinality({i \in 1..Len(sorted) : sortKey(sorted[i]) <= sortKey(r)})
  IN SubSeq(sorted, 1, k) \o <<r>> \o SubSeq(sorted, k + 1, Len(sorted))

RECURSIVE sortByPriority(_)
sortByPriority(rs) ==
  IF rs = <<>> THEN <<>>
  ELSE insertByPriority(sortByPriority(SubSeq(rs, 1, Len(rs) - 1)), rs[Len(rs)])

\* .filter(r => r.enabled)
isEnabled(r) == Has(r.enabled) /\ Val(r.enabled) = TRUE

\* [...rulesCache.rules].filter(r => r.enabled).sort((a, b) => (a.priority || 100) - (b.priority || 100))
sortedRules(ruleSet) == sortByPriority(SelectSeq(ruleSet.rules, isEnabled))

\* new RegExp(p, 'i').test(text) for the patterns the model uses: a literal
\* pattern, or a pattern the RegExp constructor rejects.
regexTest(pattern, text) ==
  pattern.valid /\ includes(toLowerCase(text), toLowerCase(pattern.literal))

\* RuleEngine.matchRule
matchRule(rule, message) ==
  LET m == rule.match
      chat == m.chat
      sender == m.sender
      txt == m.text
      text == toLowerCase(message.text)
      chatTypeSet == Has(chat) /\ Has(Val(chat).type) /\ Val(Val(chat).type) # "any"
      chatIdsSet == Has(chat) /\ Has(Val(chat).ids) /\ Len(Val(Val(chat).ids)) > 0
      senderIdsSet == Has(sender) /\ Has(Val(sender).ids) /\ Len(Val(Val(sender).ids)) > 0
      containsSet == Has(txt) /\ Has(Val(txt).contains) /\ Len(Val(Val(txt).contains)) > 0
      startsSet == Has(txt) /\ Has(Val(txt).starts_with) /\ Val(Val(txt).starts_with) # <<>>
      regexSet == Has(txt) /\ Has(Val(txt).regex)
      inSeq(x, s) == \E i \in 1..Len(s) : s[i] = x
      fail == \/ chatTypeSet /\ Val(Val(chat).type) # message.chatType
              \/ chatIdsSet /\ ~inSeq(message.chatId, Val(Val(chat).ids))
              \/ senderIdsSet /\ ~inSeq(message.senderId, Val(Val(sender).ids))
              \/ containsSet /\ ~\E i \in 1..Len(Val(Val(txt).contains)) :
                                   includes(text, toLowerCase(Val(Val(txt).contains)[i]))
              \/ startsSet /\ ~startsWith(text, toLowerCase(Val(Val(txt).starts_with)))
              \/ regexSet /\ ~regexTest(Val(Val(txt).regex), message.text)
      reasons == (IF chatTypeSet THEN <<"chat type">> ELSE <<>>)
              \o (IF chatIdsSet THEN <<"chat ID matches">> ELSE <<>>)
              \o (IF senderIdsSet THEN <<"sender ID matches">> ELSE <<>>)
              \o (IF containsSet THEN <<"text contains keyword">> ELSE <<>>)
              \o (IF startsSet THEN <<"text starts with">> ELSE <<>>)
              \o (IF regexSet THEN <<"text matches regex">> ELSE <<>>)
  IN IF fail THEN [matches |-> FALSE, reason |-> <<>>]
     ELSE [matches |-> Len(reasons) > 0 \/ (~Has(chat) /\ ~Has(sender) /\ ~Has(txt)),
           reason |-> IF reasons = <<>> THEN <<"no specific conditions (matches all)">>
                      ELSE reasons]

\* RuleEngine.isOnCooldown: first the sweep (DELETE ... WHERE expires_at < NOW()),
\* then the lookup (expires_at > NOW()).
sweepCooldowns(cooldowns, t) == {c \in cooldowns : ~(c.expires_at < t)}

isOnCooldown(cooldowns, ruleId, scopeKey, t) ==
  \E c \in sweepCooldowns(cooldowns, t) :
     c.rule_id = ruleId /\ c.scope_key = scopeKey /\ c.expires_at > t

\* setCooldown without the interval: the row expires the second it is written.
setCooldownNoInterval(cooldowns, ruleId, scopeKey, seconds, t) ==
  {c \in cooldowns : ~(c.rule_id = ruleId /\ c.scope_key = scopeKey)}
    \cup {[rule_id |-> ruleId, scope_key |-> scopeKey, expires_at |-> t]}

\* RuleEngine.setCooldown: INSERT ... ON DUPLICATE KEY UPDATE expires_at = NOW() + seconds
setCooldown(cooldowns, ruleId, scopeKey, seconds, t) ==
  {c \in cooldowns : ~(c.rule_id = ruleId /\ c.scope_key = scopeKey)}
    \cup {[rule_id |-> ruleId, scope_key |-> scopeKey, expires_at |-> t + seconds]}

\* executeAction that lets every service through: the allow-list it hands to
\* callService is the service asked for.
executeActionUnguarded(action, message, st, env) ==
  IF action.type = "ha_service" /\ Has(action.service)
    THEN LET r == callService(Val(action.service), action.target, action.data,
                              {Val(action.service)}, env.ha)
         IN [st EXCEPT
               !.haCalls = IF r.reached
                             THEN Append(@, [service |-> Val(action.service),
                                             target |-> action.target,
                                             data |-> action.data])
                             ELSE @,
               !.results = Append(@, [type |-> "ha_service", success |-> r.success,
                                      error |-> r.error])]
  ELSE IF action.type = "reply_whatsapp" /\ Has(action.text)
    THEN LET s == sendTextMessage(instanceName, message.chatId, Val(action.text), env.wa)
         IN [st EXCEPT
               !.waSends = Append(@, s.post),
               !.results = Append(@, IF s.threw
                                       THEN [type |-> action.type, success |-> FALSE,
                                             error |-> Some("provider request failed")]
                                       ELSE [type |-> "reply_whatsapp", success |-> TRUE,
                                             error |-> None])]
  ELSE st

\* One iteration of the loop of RuleEngine.executeActions.  `st` carries the
\* result list and the collaborators' call logs; `env` says which collaborator
\* answers during this run.
executeAction(action, message, st, env) ==
  IF action.type = "ha_service" /\ Has(action.service)
    THEN LET r == callService(Val(action.service), action.target, action.data,
                              allowedServices, env.ha)
         IN [st EXCEPT
               !.haCalls = IF r.reached
                             THEN Append(@, [service |-> Val(action.service),
                                             target |-> action.target,
                                             data |-> action.data])
                             ELSE @,
               !.results = Append(@, [type |-> "ha_service", success |-> r.success,
                                      error |-> r.error])]
  ELSE IF action.type = "reply_whatsapp" /\ Has(action.text)
    THEN LET s == sendTextMessage(instanceName, message.chatId, Val(action.text), env.wa)
         IN [st EXCEPT
               !.waSends = Append(@, s.post),
               !.results = Append(@, IF s.threw
                                       THEN [type |-> action.type, success |-> FALSE,
                                             error |-> Some("provider request failed")]
                                       ELSE [type |-> "reply_whatsapp", success |-> TRUE,
                                             error |-> None])]
  ELSE st

\* The loop of executeActions leaving at the first action that fails.
RECURSIVE executeActionsUntilFailure(_, _, _, _, _)
executeActionsUntilFailure(actions, j, message, st, env) ==
  IF j > Len(actions) THEN st
  ELSE LET next == executeAction(actions[j], message, st, env)
       IN IF next.results # <<>> /\ ~next.results[Len(next.results)].success
            THEN next
            ELSE executeActionsUntilFailure(actions, j + 1, message, next, env)

RECURSIVE executeActionsFrom(_, _, _, _, _)
executeActionsFrom(actions, j, message, st, env) ==
  IF j > Len(actions) THEN st
  ELSE executeActionsFrom(actions, j + 1, message,
                          executeAction(actions[j], message, st, env), env)

\* RuleEngine.executeActions
executeActions(rule, message, st, env) ==
  executeActionsFrom(rule.actions, 1, message, [st EXCEPT !.results = <<>>], env)

\* logRuleFire whose success flag is set when some action succeeded.
logRuleFireAnySuccess(fires, rule, message, dbMessageId, results, t) ==
  LET failed == SelectSeq(results, LAMBDA r : ~r.success)
      errors == [i \in 1..Len(failed) |-> failed[i].error]
  IN Append(fires,
       [rule_id |-> rule.id, rule_name |-> rule.name, message_id |-> dbMessageId,
        chat_id |-> message.chatId, sender_id |-> message.senderId,
        matched_text |-> Substring0(message.text, MatchedTextMax),
        actions_executed |-> results,
        success |-> \E i \in 1..Len(results) : results[i].success,
        error_message |-> IF errors = <<>> THEN None ELSE Some(errors),
        fired_at |-> t])

\* logRuleFire that records a fire only when every action succeeded.
logRuleFireOnSuccess(fires, rule, message, dbMessageId, results, t) ==
  IF \A i \in 1..Len(results) : results[i].success
    THEN Append(fires,
           [rule_id |-> rule.id, rule_name |-> rule.name, message_id |-> dbMessageId,
            chat_id |-> message.chatId, sender_id |-> message.senderId,
            matched_text |-> Substring0(message.text, MatchedTextMax),
            actions_executed |-> results, success |-> TRUE,
            error_message |-> None, fired_at |-> t])
    ELSE fires

\* RuleEngine.logRuleFire: one INSERT INTO wa_rule_fire
logRuleFire(fires, rule, message, dbMessageId, results, t) ==
  LET allSuccess == \A i \in 1..Len(results) : results[i].success
      failed == SelectSeq(results, LAMBDA r : ~r.success)
      errors == [i \in 1..Len(failed) |-> failed[i].error]
  IN Append(fires,
       [rule_id |-> rule.id,
        rule_name |-> rule.name,
        message_id |-> dbMessageId,
        chat_id |-> message.chatId,
        sender_id |-> message.senderId,
        matched_text |-> Substring0(message.text, MatchedTextMax),
        actions_executed |-> results,
        success |-> allSuccess,
        error_message |-> IF errors = <<>> THEN None ELSE Some(errors),
        fired_at |-> t])

\* The loop with a cooldown that is set only when every action succeeded.
RECURSIVE processRulesCoolingOnSuccess(_, _, _, _, _, _, _)
processRulesCoolingOnSuccess(rules, i, message, dbMessageId, st, env, t) ==
  IF i > Len(rules) THEN st
  ELSE
    LET rule == rules[i]
        swept == [st EXCEPT !.wa_cooldown = sweepCooldowns(@, t)]
    IN IF isOnCooldown(st.wa_cooldown, rule.id, message.chatId, t)
         THEN processRulesCoolingOnSuccess(rules, i + 1, message, dbMessageId,
                [swept EXCEPT !.trace = Append(@, [rule |-> rule.id, log |-> "cooldown"])],
                env, t)
       ELSE IF matchRule(rule, message).matches
         THEN LET noted == [swept EXCEPT
                    !.trace = Append(@, [rule |-> rule.id, log |-> "matched"])]
                  ran == executeActions(rule, message, noted, env)
                  logged == [ran EXCEPT
                    !.wa_rule_fire = logRuleFire(@, rule, message, dbMessageId, ran.results, t)]
                  cooled == IF /\ Has(rule.cooldown_seconds) /\ Val(rule.cooldown_seconds) > 0
                               /\ \A j \in 1..Len(ran.results) : ran.results[j].success
                              THEN [logged EXCEPT !.wa_cooldown =
                                      setCooldown(@, rule.id, message.chatId,
                                                  Val(rule.cooldown_seconds), t)]
                              ELSE logged
              IN IF rule.stop_on_match # Some(FALSE)
                   THEN cooled
                   ELSE processRulesCoolingOnSuccess(rules, i + 1, message, dbMessageId,
                                                     cooled, env, t)
       ELSE processRulesCoolingOnSuccess(rules, i + 1, message, dbMessageId, swept, env, t)

\* The body of the for-loop of RuleEngine.processMessage, from rule i on.
\* st.trace is the engine's console log of this run: "cooldown" is the line
\* written when a rule is skipped, "matched" the line written when matchRule
\* succeeded, before the actions run.
RECURSIVE processRulesFrom(_, _, _, _, _, _, _)
processRulesFrom(rules, i, message, dbMessageId, st, env, t) ==
  IF i > Len(rules) THEN st
  ELSE
    LET rule == rules[i]
        swept == [st EXCEPT !.wa_cooldown = sweepCooldowns(@, t)]
    IN IF isOnCooldown(st.wa_cooldown, rule.id, message.chatId, t)
         THEN processRulesFrom(rules, i + 1, message, dbMessageId,
                [swept EXCEPT !.trace = Append(@, [rule |-> rule.id, log |-> "cooldown"])],
                env, t)
       ELSE IF matchRule(rule, message).matches
         THEN LET noted == [swept EXCEPT
                    !.trace = Append(@, [rule |-> rule.id, log |-> "matched"])]
                  ran == executeActions(rule, message, noted, env)
                  logged == [ran EXCEPT
                    !.wa_rule_fire = logRuleFire(@, rule, message, dbMessageId, ran.results, t)]
                  cooled == IF Has(rule.cooldown_seconds) /\ Val(rule.cooldown_seconds) > 0
                              THEN [logged EXCEPT !.wa_cooldown =
                                      setCooldown(@, rule.id, message.chatId,
                                                  Val(rule.cooldown_seconds), t)]
                              ELSE logged
              IN IF rule.stop_on_match # Some(FALSE)
                   THEN cooled
                   ELSE processRulesFrom(rules, i + 1, message, dbMessageId, cooled, env, t)
       ELSE processRulesFrom(rules, i + 1, message, dbMessageId, swept, env, t)

\* RuleEngine.processMessage
processMessage(cache, message, dbMessageId, st, env, t) ==
  IF ~Has(cache) THEN st
  ELSE processRulesFrom(sortedRules(Val(cache)), 1, message, dbMessageId, st, env, t)

\* What a call of RuleEngine.processMessage resolves to: the method is
\* declared Promise<void> and has no return value.
processMessageResult(cache, message) == None

\* RuleEngine.describeAction
describeAction(action) ==
  IF action.type = "ha_service"
    THEN <<"Call", action.service, "on",
           IF Has(action.target) THEN Val(action.target).entity_id ELSE "no target">>
  ELSE IF action.type = "reply_whatsapp" THEN <<"Reply", action.text>>
  ELSE <<action.type>>

\* The loop of testMessage without the break: every matching rule is reported.
RECURSIVE testRulesFromNoBreak(_, _, _, _)
testRulesFromNoBreak(rules, i, message, acc) ==
  IF i > Len(rules) THEN acc
  ELSE
    LET rule == rules[i]
        mr == matchRule(rule, message)
    IN IF mr.matches
         THEN testRulesFromNoBreak(rules, i + 1, message,
                [matchedRules |-> Append(acc.matchedRules,
                    [id |-> rule.id, name |-> rule.name, reason |-> mr.reason]),
                 actionsPreview |-> acc.actionsPreview])
       ELSE testRulesFromNoBreak(rules, i + 1, message, acc)

\* The body of the for-loop of RuleEngine.testMessage, from rule i on.
RECURSIVE testRulesFrom(_, _, _, _)
testRulesFrom(rules, i, message, acc) ==
  IF i > Len(rules) THEN acc
  ELSE
    LET rule == rules[i]
        mr == matchRule(rule, message)
    IN IF mr.matches
         THEN LET acc2 ==
                    [matchedRules |-> Append(acc.matchedRules,
                        [id |-> rule.id, name |-> rule.name, reason |-> mr.reason]),
                     actionsPreview |-> acc.actionsPreview \o
                        [j \in 1..Len(rule.actions) |->
                           [ruleId |-> rule.id, type |-> rule.actions[j].type,
                            details |-> describeAction(rule.actions[j])]]]
              IN IF rule.stop_on_match # Some(FALSE) THEN acc2
                 ELSE testRulesFrom(rules, i + 1, message, acc2)
       ELSE testRulesFrom(rules, i + 1, message, acc)

\* testMessage that dispatches the actions of the first rule that matches.
testMessageDispatching(cache, message, w) ==
  LET rules == IF Has(cache) THEN sortedRules(Val(cache)) ELSE <<>>
      hits == SelectSeq(rules, LAMBDA r : matchRule(r, message).matches)
  IN [world |-> IF hits = <<>> THEN w
                ELSE executeActions(hits[1], message, w, [ha |-> TRUE, wa |-> TRUE]),
      result |-> IF ~Has(cache) THEN [matchedRules |-> <<>>, actionsPreview |-> <<>>]
                 ELSE testRulesFrom(rules, 1, message,
                                    [matchedRules |-> <<>>, actionsPreview |-> <<>>])]

\* RuleEngine.testMessage: its result, and the world `w` as the call leaves it
\* (the method reads the cache and calls matchRule and describeAction only).
testMessage(cache, message, w) ==
  [world |-> w,
   result |-> IF ~Has(cache) THEN [matchedRules |-> <<>>, actionsPreview |-> <<>>]
              ELSE testRulesFrom(sortedRules(Val(cache)), 1, message,
                                 [matchedRules |-> <<>>, actionsPreview |-> <<>>])]

----------------------------------------------------------------------------
\* The webhook ingestor (routes/webhook.ts).

SummaryMax == 1000
MessageSummaryMax == 120

\* An event kind string is its words, its separator and its letter case:
\* "messages.upsert" is [words |-> <<"messages", "upsert">>, sep |-> ".", upper |-> FALSE].
Kind(words) == [words |-> words, sep |-> "_", upper |-> TRUE]
EmptyKind == Kind(<<>>)

\* raw.replace(/\./g, '_').toUpperCase()
normaliseEventType(raw) == [words |-> raw.words, sep |-> "_", upper |-> TRUE]

\* a || '' and a || b for optional texts
OrText(a, b) == IF Has(a) /\ Val(a) # <<>> THEN Val(a) ELSE b

\* data?.key?.f
KeyField(data, f) ==
  IF Has(data) /\ Has(Val(data).key) THEN Val(Val(data).key)[f] ELSE None

\* data?.message?.f
MessageField(data, f) ==
  IF Has(data) /\ Has(Val(data).message) THEN Val(Val(data).message)[f] ELSE None

\* data?.f
DataField(data, f) == IF Has(data) THEN Val(data)[f] ELSE None

\* extractEventMeta.  JSON.stringify(undefined).substring(...) throws, which is
\* what `threw` records.
extractEventMeta(eventType, event) ==
  LET data == event.data
      meta(c, s, sm) == [threw |-> FALSE, chatId |-> c, senderId |-> s, summary |-> sm]
      thrown == [threw |-> TRUE, chatId |-> NoJid, senderId |-> NoJid, summary |-> <<>>]
  IN
  IF eventType = Kind(<<"messages", "upsert">>) THEN
    LET chatId == OrJid(KeyField(data, "remoteJid"), NoJid)
        senderId == OrJid(KeyField(data, "participant"), chatId)
        text == OrText(MessageField(data, "conversation"),
                  OrText(MessageField(data, "extendedText"),
                    OrText(MessageField(data, "imageCaption"), <<>>)))
        base == IF text # <<>> THEN <<"Message", Substring0(text, MessageSummaryMax)>>
                ELSE <<"Message (non-text)">>
        fromMe == KeyField(data, "fromMe") = Some(TRUE)
    IN meta(chatId, senderId, IF fromMe THEN <<"[sent]">> \o base ELSE base)
  ELSE IF eventType = Kind(<<"messages", "update">>) THEN
    meta(OrJid(KeyField(data, "remoteJid"), OrJid(DataField(data, "remoteJid"), NoJid)),
         NoJid, <<"Message updated">>)
  ELSE IF eventType = Kind(<<"connection", "update">>) THEN
    IF Has(DataField(data, "state")) THEN meta(NoJid, NoJid, <<"Connection", Val(DataField(data, "state"))>>)
    ELSE IF Has(data) THEN meta(NoJid, NoJid, <<"Connection", "json">>)
    ELSE thrown
  ELSE IF eventType = Kind(<<"qrcode", "updated">>) THEN
    meta(NoJid, NoJid, <<"QR code updated">>)
  ELSE IF eventType = Kind(<<"call">>) THEN
    LET from == OrJid(DataField(data, "from"), NoJid)
    IN meta(from, from, <<"Call from", from>>)
  ELSE IF eventType \in {Kind(<<"groups", "upsert">>), Kind(<<"groups", "update">>),
                         Kind(<<"group", "participants", "update">>),
                         Kind(<<"presence", "update">>), Kind(<<"chats", "upsert">>),
                         Kind(<<"chats", "update">>), Kind(<<"chats", "delete">>)} THEN
    meta(OrJid(DataField(data, "id"), NoJid), NoJid, <<eventType.words[1]>>)
  ELSE IF eventType \in {Kind(<<"contacts", "upsert">>), Kind(<<"contacts", "update">>)} THEN
    meta(NoJid, OrJid(DataField(data, "id"), NoJid), <<"Contact">>)
  ELSE IF Has(data) THEN meta(NoJid, NoJid, <<"json">>)
  ELSE thrown

\* logEvent: one INSERT INTO wa_event_log (the raw payload column is left out).
logEvent(log, eventType, instance, chatId, senderId, summary, t) ==
  Append(log, [event_type |-> eventType,
               instance_name |-> instance,
               chat_id |-> IF chatId = NoJid THEN None ELSE Some(chatId),
               sender_id |-> IF senderId = NoJid THEN None ELSE Some(senderId),
               summary |-> Substring0(summary, SummaryMax),
               received_at |-> t])

\* chatId.endsWith('@g.us') ? 'group' : 'direct'
chatTypeOf(chatId) == IF endsWithServer(chatId, "g.us") THEN "group" ELSE "direct"

\* The lookup made on the wrong column: it never finds the message.
findMessageIdByText(messages, providerId) ==
  {i \in 1..Len(messages) : messages[i].text = providerId}

\* SELECT id FROM wa_message WHERE provider_message_id = ?
findMessageId(messages, providerId) ==
  {i \in 1..Len(messages) : messages[i].provider_message_id = providerId}

\* INSERT INTO wa_chat (id, type, name, last_message_at) VALUES (?, ?, ?, NOW())
\* ON DUPLICATE KEY UPDATE last_message_at = NOW();  updated_at follows the row
\* (ON UPDATE CURRENT_TIMESTAMP changes it when a column changes).
touchChat(chats, chatId, chatType, name, t) ==
  IF chatId \in DOMAIN chats
    THEN [chats EXCEPT ![chatId] =
            IF @.last_message_at = Some(t) THEN @
            ELSE [@ EXCEPT !.last_message_at = Some(t), !.updated_at = t]]
    ELSE [c \in DOMAIN chats \cup {chatId} |->
            IF c = chatId
              THEN [type |-> chatType, name |-> name, phone_number |-> None,
                    enabled |-> TRUE, last_message_at |-> Some(t),
                    created_at |-> t, updated_at |-> t]
              ELSE chats[c]]

\* handleMessageUpsert that skips only the INSERT for a message it has seen:
\* the chat is touched and the engine runs again.
handleMessageUpsertLateDedup(w, cache, event, eventType, env, t) ==
  LET data == event.data
      fromMe == KeyField(data, "fromMe") = Some(TRUE)
      chatId == OrJid(KeyField(data, "remoteJid"), NoJid)
      messageId == OrText(KeyField(data, "id"), <<>>)
      senderId == OrJid(KeyField(data, "participant"), chatId)
      senderName == OrText(DataField(data, "pushName"), <<>>)
      text == OrText(MessageField(data, "conversation"),
                OrText(MessageField(data, "extendedText"),
                  OrText(MessageField(data, "imageCaption"),
                    OrText(MessageField(data, "videoCaption"), <<>>))))
      chatType == chatTypeOf(chatId)
      known == {i \in 1..Len(w.wa_message) : w.wa_message[i].provider_message_id = messageId}
      dbMessageId == IF known = {} THEN Len(w.wa_message) + 1 ELSE CHOOSE i \in known : TRUE
      inserted == IF known # {} THEN w
                  ELSE [w EXCEPT !.wa_message = Append(@,
                     [provider_message_id |-> messageId, chat_id |-> chatId,
                      sender_id |-> senderId, sender_name |-> senderName,
                      text |-> text, message_type |-> "text",
                      received_at |-> t, processed |-> FALSE])]
      touched == [inserted EXCEPT !.wa_chat =
                     touchChat(@, chatId, chatType,
                               IF senderName # <<>> THEN senderName ELSE <<chatId.user>>, t)]
      message == [chatId |-> chatId, chatType |-> chatType, senderId |-> senderId,
                  senderName |-> senderName, text |-> text, messageId |-> messageId,
                  event |-> eventType]
      ran == processMessage(cache, message, Some(dbMessageId),
                            [touched EXCEPT !.handed = Append(@, message)], env, t)
  IN IF ~Has(data) \/ ~Has(Val(data).key) \/ ~Has(Val(data).message) THEN w
     ELSE IF fromMe THEN w
     ELSE IF text = <<>> THEN w
     ELSE [ran EXCEPT !.wa_message[dbMessageId].processed = TRUE]

\* handleMessageUpsert.  `w` is the world the handler reads and writes: the
\* tables, the collaborators' logs, the messages handed to the engine
\* (w.handed) and the engine's trace of this run.  The object processMessage
\* returns is only logged (lines 264-266).
handleMessageUpsert(w, cache, event, eventType, env, t) ==
  LET data == event.data
      fromMe == KeyField(data, "fromMe") = Some(TRUE)
      chatId == OrJid(KeyField(data, "remoteJid"), NoJid)
      messageId == OrText(KeyField(data, "id"), <<>>)
      senderId == OrJid(KeyField(data, "participant"), chatId)
      senderName == OrText(DataField(data, "pushName"), <<>>)
      text == OrText(MessageField(data, "conversation"),
                OrText(MessageField(data, "extendedText"),
                  OrText(MessageField(data, "imageCaption"),
                    OrText(MessageField(data, "videoCaption"), <<>>))))
      chatType == chatTypeOf(chatId)
      dbMessageId == Len(w.wa_message) + 1
      inserted == [w EXCEPT !.wa_message = Append(@,
                     [provider_message_id |-> messageId, chat_id |-> chatId,
                      sender_id |-> senderId, sender_name |-> senderName,
                      text |-> text, message_type |-> "text",
                      received_at |-> t, processed |-> FALSE])]
      touched == [inserted EXCEPT !.wa_chat =
                     touchChat(@, chatId, chatType,
                               IF senderName # <<>> THEN senderName ELSE <<chatId.user>>, t)]
      message == [chatId |-> chatId, chatType |-> chatType, senderId |-> senderId,
                  senderName |-> senderName, text |-> text, messageId |-> messageId,
                  event |-> eventType]
      ran == processMessage(cache, message, Some(dbMessageId),
                            [touched EXCEPT !.handed = Append(@, message)], env, t)
  IN IF ~Has(data) \/ ~Has(Val(data).key) \/ ~Has(Val(data).message) THEN w
     ELSE IF fromMe THEN w
     ELSE IF text = <<>> THEN w
     ELSE IF findMessageId(w.wa_message, messageId) # {} THEN w
     ELSE [ran EXCEPT !.wa_message[dbMessageId].processed = TRUE]

\* handleGenericEvent
handleGenericEvent(w, cache, event, eventType, chatId, senderId, env, t) ==
  LET message == [chatId |-> chatId, chatType |-> chatTypeOf(chatId),
                  senderId |-> senderId, senderName |-> <<>>, text |-> <<>>,
                  messageId |-> <<>>, event |-> eventType]
  IN processMessage(cache, message, None, [w EXCEPT !.handed = Append(@, message)], env, t)

\* postEvolution whose catch block answers 500.
postEvolutionPropagating(w, cache, event, env, t) ==
  LET eventType == normaliseEventType(IF Has(event.event) THEN Val(event.event) ELSE EmptyKind)
      instance == IF Has(event.instance) THEN Val(event.instance) ELSE ""
      meta == extractEventMeta(eventType, event)
      logged == [w EXCEPT !.wa_event_log =
                   logEvent(@, eventType, instance, meta.chatId, meta.senderId,
                            meta.summary, t)]
  IN IF meta.threw
       THEN [world |-> w, response |-> [status |-> 500, received |-> FALSE, error |-> TRUE]]
     ELSE IF eventType = Kind(<<"messages", "upsert">>)
       THEN [world |-> handleMessageUpsert(logged, cache, event, eventType, env, t),
             response |-> [status |-> 200, received |-> TRUE, error |-> FALSE]]
     ELSE [world |-> handleGenericEvent(logged, cache, event, eventType,
                                        meta.chatId, meta.senderId, env, t),
           response |-> [status |-> 200, received |-> TRUE, error |-> FALSE]]

\* The body of router.post('/evolution'): the world after the handler, and the
\* HTTP response.
postEvolution(w, cache, event, env, t) ==
  LET eventType == normaliseEventType(IF Has(event.event) THEN Val(event.event) ELSE EmptyKind)
      instance == IF Has(event.instance) THEN Val(event.instance) ELSE ""
      meta == extractEventMeta(eventType, event)
      logged == [w EXCEPT !.wa_event_log =
                   logEvent(@, eventType, instance, meta.chatId, meta.senderId,
                            meta.summary, t)]
  IN IF meta.threw
       THEN [world |-> w, response |-> [status |-> 200, received |-> TRUE, error |-> TRUE]]
     ELSE IF eventType = Kind(<<"messages", "upsert">>)
       THEN [world |-> handleMessageUpsert(logged, cache, event, eventType, env, t),
             response |-> [status |-> 200, received |-> TRUE, error |-> FALSE]]
     ELSE [world |-> handleGenericEvent(logged, cache, event, eventType,
                                        meta.chatId, meta.senderId, env, t),
           response |-> [status |-> 200, received |-> TRUE, error |-> FALSE]]

----------------------------------------------------------------------------
\* YAML, JSON and the rule-set row.
\*
\* A YAML text is [syntax, style, doc]: whether it parses, how the operator
\* laid it out, and the document it denotes.  A scalar of a document is
\* [t |-> "str", v |-> chunks] or, for a YAML timestamp, which js-yaml loads as
\* a Date, [t |-> "timestamp", v |-> chunks].

\* yaml.load(text)
yamlLoad(y) ==
  IF y.syntax = "ok" THEN [threw |-> FALSE, value |-> y.doc]
  ELSE [threw |-> TRUE, value |-> <<>>]

\* yaml.dump(doc, { indent: 2 })
yamlDump(doc) == [syntax |-> "ok", style |-> "canonical", doc |-> doc]

\* JSON.stringify of one scalar: a Date becomes its ISO string.
jsonScalar(x) ==
  IF x.t = "timestamp" THEN [t |-> "str", v |-> x.v \o <<"T00:00:00.000Z">>] ELSE x

jsonAction(a) == [a EXCEPT !.data = IF Has(@) THEN Some(jsonScalar(Val(@))) ELSE @]

jsonRule(r) == [r EXCEPT !.actions = [j \in 1..Len(@) |-> jsonAction(@[j])]]

\* JSON.stringify(parsed): the JSON text, named by the value it denotes.
jsonStringify(doc) ==
  [json |-> [doc EXCEPT !.rules = [i \in 1..Len(@) |-> jsonRule(@[i])]]]

\* JSON.parse(text)
jsonParse(j) == j.json

\* What RULE_SCHEMA demands of a rule set: every rule has a non-empty id and
\* name and a non-empty action list whose actions are of a known type.
schemaErrors(doc) ==
  LET bad(i) == \/ doc.rules[i].id = ""
                \/ doc.rules[i].name = ""
                \/ doc.rules[i].actions = <<>>
                \/ \E j \in 1..Len(doc.rules[i].actions) :
                      doc.rules[i].actions[j].type \notin {"ha_service", "reply_whatsapp"}
      idx == {i \in 1..Len(doc.rules) : bad(i)}
      RECURSIVE list(_)
      list(n) == IF n = 0 THEN <<>>
                 ELSE list(n - 1) \o (IF n \in idx
                                        THEN <<[rule |-> n, action |-> 0, message |-> "schema"]>>
                                        ELSE <<>>)
  IN list(Len(doc.rules))

\* The hand-written checks of validateYaml for rule i: a duplicate id, then
\* each action's required field.
ruleErrors(doc, i) ==
  LET rule == doc.rules[i]
      dup == IF \E k \in 1..(i - 1) : doc.rules[k].id = rule.id
               THEN <<[rule |-> i, action |-> 0, message |-> "Duplicate rule ID"]>>
               ELSE <<>>
      RECURSIVE acts(_)
      acts(n) ==
        IF n = 0 THEN <<>>
        ELSE acts(n - 1)
             \o (IF rule.actions[n].type = "ha_service" /\ ~Has(rule.actions[n].service)
                   THEN <<[rule |-> i, action |-> n, message |-> "ha_service action requires a service field"]>>
                   ELSE <<>>)
             \o (IF rule.actions[n].type = "reply_whatsapp" /\ ~Has(rule.actions[n].text)
                   THEN <<[rule |-> i, action |-> n, message |-> "reply_whatsapp action requires a text field"]>>
                   ELSE <<>>)
  IN dup \o acts(Len(rule.actions))

RECURSIVE rulesErrors(_, _)
rulesErrors(doc, n) == IF n = 0 THEN <<>> ELSE rulesErrors(doc, n - 1) \o ruleErrors(doc, n)

\* RuleEngine.validateYaml
validateYaml(yamlText) ==
  LET loaded == yamlLoad(yamlText)
      parsed == loaded.value
      errors == schemaErrors(parsed) \o rulesErrors(parsed, Len(parsed.rules))
  IN IF loaded.threw
       THEN [valid |-> FALSE,
             errors |-> <<[rule |-> 0, action |-> 0, message |-> "YAML syntax error"]>>,
             ruleCount |-> 0, normalizedYaml |-> None]
     ELSE [valid |-> errors = <<>>,
           errors |-> errors,
           ruleCount |-> Len(parsed.rules),
           normalizedYaml |-> IF errors = <<>> THEN Some(yamlDump(parsed)) ELSE None]

\* A save that stores the round-tripped text validateYaml computes.
saveRulesNormalised(row, cache, yamlText) ==
  LET validation == validateYaml(yamlText)
      parsed == yamlLoad(yamlText).value
  IN IF ~validation.valid
       THEN [row |-> row, cache |-> cache, result |-> validation]
     ELSE [row |-> [yaml_text |-> Val(validation.normalizedYaml),
                    parsed_json |-> Some(jsonStringify(parsed)),
                    version |-> row.version + 1],
           cache |-> Some(parsed),
           result |-> validation]

\* A save that counts every attempt: the version moves on for a text that
\* does not validate as well.
saveRulesCountingAttempts(row, cache, yamlText) ==
  LET validation == validateYaml(yamlText)
      parsed == yamlLoad(yamlText).value
  IN IF ~validation.valid
       THEN [row |-> [row EXCEPT !.version = @ + 1], cache |-> cache, result |-> validation]
     ELSE [row |-> [yaml_text |-> yamlText,
                    parsed_json |-> Some(jsonStringify(parsed)),
                    version |-> row.version + 1],
           cache |-> Some(parsed),
           result |-> validation]

\* RuleEngine.saveRules: the row and the cache after the call, and its result.
saveRules(row, cache, yamlText) ==
  LET validation == validateYaml(yamlText)
      parsed == yamlLoad(yamlText).value
  IN IF ~validation.valid
       THEN [row |-> row, cache |-> cache, result |-> validation]
     ELSE [row |-> [yaml_text |-> yamlText,
                    parsed_json |-> Some(jsonStringify(parsed)),
                    version |-> row.version + 1],
           cache |-> Some(parsed),
           result |-> validation]

EmptyRuleSet == [version |-> 1, rules |-> <<>>]

\* RuleEngine.reloadRules: the cache after the call.
reloadRules(row) ==
  IF Has(row.parsed_json) THEN Some(jsonParse(Val(row.parsed_json)))
  ELSE Some(EmptyRuleSet)

\* RuleEngine.getRulesYaml
getRulesYaml(row) == row.yaml_text

\* The row the migration 003_create_ruleset inserts.
InitialRuleSetRow ==
  [yaml_text |-> [syntax |-> "ok", style |-> "canonical", doc |-> EmptyRuleSet],
   parsed_json |-> Some([json |-> EmptyRuleSet]),
   version |-> 1]

----------------------------------------------------------------------------
\* The inputs the model draws from.

ChatA == [user |-> "31600000001", server |-> "s.whatsapp.net"]
ChatG == [user |-> "120363000000000001", server |-> "g.us"]
Member == [user |-> "31600000002", server |-> "s.whatsapp.net"]

TextPing == <<"P", "i", "n", "g">>
TextPingLower == <<"p", "i", "n", "g">>
TextHi == <<"h", "i">>

\* A match clause is [events, chat, sender, text], each optional; chat is
\* [type, ids], sender is [ids, numbers], text is [contains, starts_with, regex].
MatchNothingSet == [events |-> None, chat |-> None, sender |-> None, text |-> None]
MatchPing ==
  [events |-> None, chat |-> None, sender |-> None,
   text |-> Some([contains |-> Some(<<TextPingLower>>), starts_with |-> None, regex |-> None])]
MatchDirectPing ==
  [events |-> None, chat |-> Some([type |-> Some("direct"), ids |-> None]), sender |-> None,
   text |-> Some([contains |-> Some(<<TextPingLower>>), starts_with |-> None, regex |-> None])]

ActScript ==
  [type |-> "ha_service", service |-> Some("script.turn_on"),
   target |-> Some([entity_id |-> "script.goodnight"]), data |-> None, text |-> None]
ActScriptDated ==
  [ActScript EXCEPT !.data = Some([t |-> "timestamp", v |-> <<"2024-01-01">>])]
ActShell ==
  [type |-> "ha_service", service |-> Some("shell_command.run"),
   target |-> None, data |-> None, text |-> None]
ActReply ==
  [type |-> "reply_whatsapp", service |-> None, target |-> None, data |-> None,
   text |-> Some(<<"o", "k">>)]
ActReplyNoText == [ActReply EXCEPT !.text = None]

MkRule(id, enabled, priority, stop, cooldown, match, actions) ==
  [id |-> id, name |-> id, enabled |-> enabled, priority |-> priority,
   stop_on_match |-> stop, cooldown_seconds |-> cooldown, match |-> match,
   actions |-> actions]

MkDoc(rules) == [version |-> 1, rules |-> rules]

MatchAll == MatchNothingSet

RulePing(priority, stop, cooldown) ==
  MkRule("r1", Some(TRUE), priority, stop, cooldown, MatchPing, <<ActShell, ActReply>>)

RuleAll == MkRule("r2", Some(TRUE), Some(20), None, None, MatchAll, <<ActScript>>)

\* The rule sets the model draws from: a stopping rule with a cooldown ahead of
\* a catch-all, a non-stopping rule ahead of it, a rule of priority 0, two
\* rules of equal priority, rules that are disabled or say nothing about
\* `enabled`, and the empty set.
ValidDocs ==
  {MkDoc(<<RulePing(Some(10), None, Some(2)), RuleAll>>),
   MkDoc(<<RulePing(Some(10), Some(FALSE), None), RuleAll>>),
   MkDoc(<<RulePing(Some(0), None, None), RuleAll>>),
   MkDoc(<<MkRule("r2", Some(TRUE), Some(10), Some(FALSE), Some(1), MatchDirectPing, <<ActReply>>),
           MkRule("r1", Some(TRUE), Some(10), Some(TRUE), Some(2), MatchPing, <<ActScript>>)>>),
   MkDoc(<<MkRule("r1", Some(TRUE), None, None, None, MatchPing, <<ActScriptDated>>),
           MkRule("r2", Some(FALSE), None, None, None, MatchAll, <<ActReply>>)>>),
   MkDoc(<<MkRule("r1", None, None, None, None, MatchPing, <<ActScript>>)>>),
   EmptyRuleSet}

InvalidDocs ==
  {MkDoc(<<MkRule("r1", Some(TRUE), None, None, None, MatchPing, <<ActScript>>),
           MkRule("r1", Some(TRUE), None, None, None, MatchNothingSet, <<ActReply>>)>>),
   MkDoc(<<MkRule("r1", Some(TRUE), None, None, None, MatchPing, <<>>)>>),
   MkDoc(<<MkRule("r1", Some(TRUE), None, None, None, MatchPing, <<ActReplyNoText>>)>>),
   MkDoc(<<MkRule("", Some(TRUE), None, None, None, MatchPing, <<ActReply>>)>>)}

Yaml(doc) == [syntax |-> "ok", style |-> "operator", doc |-> doc]
BrokenYaml == [syntax |-> "error", style |-> "operator", doc |-> <<>>]

\* The rule sets a booted gateway may hold: the migration's, or a saved one.
BootRows ==
  {InitialRuleSetRow}
  \cup {[yaml_text |-> Yaml(d), parsed_json |-> Some(jsonStringify(d)), version |-> 2] :
          d \in ValidDocs}

\* Provider event envelopes.
MsgKey(jid, id, fromMe, participant) ==
  Some([remoteJid |-> Some(jid), id |-> id, fromMe |-> Some(fromMe), participant |-> participant])

MsgBody(conversation) ==
  Some([conversation |-> conversation, extendedText |-> None,
        imageCaption |-> None, videoCaption |-> None])

MkData(key, message, state, from) ==
  Some([key |-> key, message |-> message, pushName |-> None, state |-> state,
        from |-> from, id |-> None, remoteJid |-> None])

Envelope(kind, data) == [event |-> Some(kind), instance |-> Some(instanceName), data |-> data]

UpsertDotted == [words |-> <<"messages", "upsert">>, sep |-> ".", upper |-> FALSE]
UpsertUpper == Kind(<<"messages", "upsert">>)

EvM1 == Envelope(UpsertDotted, MkData(MsgKey(ChatA, Some(<<"m1">>), FALSE, None), MsgBody(Some(TextPing)), None, None))
EvM2 == Envelope(UpsertUpper, MkData(MsgKey(ChatA, Some(<<"m2">>), FALSE, None), MsgBody(Some(TextPingLower)), None, None))
EvM3 == Envelope(UpsertUpper, MkData(MsgKey(ChatG, Some(<<"m3">>), FALSE, Some(Member)), MsgBody(Some(TextPing)), None, None))
EvNoId == Envelope(UpsertUpper, MkData(MsgKey(ChatA, None, FALSE, None), MsgBody(Some(TextHi)), None, None))
EvSelf == Envelope(UpsertUpper, MkData(MsgKey(ChatA, Some(<<"m4">>), TRUE, None), MsgBody(Some(TextPing)), None, None))
EvNoText == Envelope(UpsertUpper, MkData(MsgKey(ChatA, Some(<<"m5">>), FALSE, None), MsgBody(None), None, None))
EvConnection == Envelope(Kind(<<"connection", "update">>), MkData(None, None, Some("open"), None))
EvCall == Envelope(Kind(<<"call">>), MkData(None, None, None, Some(ChatA)))
EvMalformed == [event |-> None, instance |-> None, data |-> None]

Events == {EvM1, EvM2, EvM3, EvConnection}

\* Which collaborators answer while one handler runs.
Envs == {[ha |-> TRUE, wa |-> TRUE], [ha |-> FALSE, wa |-> FALSE]}

\* Bodies of POST /api/rules/test: with a message, and without one.
TestBodies ==
  {[message |-> Some([chat_id |-> Some(ChatA), sender_id |-> Some(ChatA),
                      text |-> Some(TextPing)])],
   [message |-> None]}

----------------------------------------------------------------------------
\* State after start-up: migrations applied, ruleEngine.init() done.

\* Provider listings.
RawChat(id, name) ==
  [id |-> Some(id), remoteJid |-> None, subject |-> None, name |-> None,
   pushName |-> Some(name), timestamp |-> None, lastMsgTimestamp |-> None]

RawGroup(id, subject) ==
  [id |-> Some(id), remoteJid |-> None, subject |-> Some(subject), name |-> None,
   pushName |-> None, timestamp |-> None, lastMsgTimestamp |-> None]

ChatOld == [user |-> "31600000003", server |-> "s.whatsapp.net"]
ChatLid == [user |-> "99000000000001", server |-> "lid"]
ChatBare == [user |-> "31600000004", server |-> ""]

NameFam == <<"F", "a", "m">>
NameAnn == <<"A", "n", "n">>
NameBo == <<"B", "o">>

Answer(data) == [ok |-> TRUE, data |-> data]
Failure == [ok |-> FALSE, data |-> <<>>]

\* Every endpoint fails.
UpstreamDown == [fetchAllGroups |-> Failure, findContacts |-> Failure, findChats |-> Failure]

\* The primary endpoints answer; the contact listing holds an id of the
\* provider's @lid form.
UpstreamPrimary ==
  [fetchAllGroups |-> Answer(<<RawGroup(ChatG, NameFam)>>),
   findContacts |-> Answer(<<RawChat(ChatA, NameAnn), RawChat(ChatLid, NameBo)>>),
   findChats |-> Failure]

\* Only the chats endpoint answers.
UpstreamFallback ==
  [fetchAllGroups |-> Answer(<<>>),
   findContacts |-> Failure,
   findChats |-> Answer(<<RawChat(ChatG, NameFam), RawChat(ChatA, NameAnn),
                          RawChat(ChatLid, NameBo)>>)]

Upstreams == {UpstreamDown, UpstreamPrimary, UpstreamFallback}

\* The gateway's clock against the Store's.
Skews == {-1, 0, 1}

\* A chat row as an earlier webhook delivery left it at instant t.
SeenChat(id, t) ==
  [type |-> chatTypeOf(id), name |-> <<id.user>>, phone_number |-> None,
   enabled |-> TRUE, last_message_at |-> Some(t), created_at |-> t, updated_at |-> t]

\* The chat table a sync starts from: a direct chat the listings do not hold,
\* and a chat whose id has no suffix.
SeenChats == [c \in {ChatOld, ChatBare} |-> SeenChat(c, 0)]

IdleProgress ==
  [status |-> "idle", groupsCount |-> 0, contactsCount |-> 0, totalCount |-> 0,
   error |-> None, startedAt |-> None, completedAt |-> None]

InitCommon ==
  /\ wa_message = <<>>
  /\ wa_rule_fire = <<>>
  /\ wa_cooldown = {}
  /\ wa_event_log = <<>>
  /\ haCalls = <<>>
  /\ waSends = <<>>
  /\ now = 0
  /\ refreshProgress = IdleProgress
  /\ jobs = <<>>
  /\ timers = {}
  /\ lastOp = [op |-> "boot"]
  /\ delivered = <<>>
  /\ runs = <<>>

Init ==
  /\ InitCommon
  /\ wa_chat = <<>>
  /\ wa_ruleset \in BootRows
  /\ rulesCache = reloadRules(wa_ruleset)
  /\ skew = 0
  /\ upstream = UpstreamDown

----------------------------------------------------------------------------
\* HTTP handlers of the ingest path and the rule routes.

World ==
  [wa_message |-> wa_message, wa_chat |-> wa_chat, wa_rule_fire |-> wa_rule_fire,
   wa_cooldown |-> wa_cooldown, wa_event_log |-> wa_event_log,
   haCalls |-> haCalls, waSends |-> waSends,
   trace |-> <<>>, results |-> <<>>, handed |-> <<>>]

\* POST /webhook/evolution
Webhook(event, env) ==
  /\ Len(delivered) < MaxDeliveries
  /\ LET out == postEvolution(World, rulesCache, event, env, now)
         w == out.world
     IN /\ wa_message' = w.wa_message
        /\ wa_chat' = w.wa_chat
        /\ wa_rule_fire' = w.wa_rule_fire
        /\ wa_cooldown' = w.wa_cooldown
        /\ wa_event_log' = w.wa_event_log
        /\ haCalls' = w.haCalls
        /\ waSends' = w.waSends
        /\ delivered' = Append(delivered,
             [event |-> event, at |-> now, response |-> out.response,
              handed |-> w.handed, trace |-> w.trace,
              cooldownsBefore |-> wa_cooldown,
              firesBefore |-> Len(wa_rule_fire), firesAfter |-> Len(w.wa_rule_fire)])
  /\ UNCHANGED <<wa_ruleset, rulesCache, now, skew, runs, syncVars, lastOp>>

\* POST /api/rules/test
PostRulesTest(body) ==
  /\ IF ~Has(body.message)
       THEN /\ lastOp' = [op |-> "rules_test", body |-> body,
                          response |-> [status |-> 400, result |-> None]]
            /\ UNCHANGED <<wa_message, wa_chat, wa_rule_fire, wa_cooldown, wa_event_log,
                           haCalls, waSends>>
       ELSE LET m == Val(body.message)
                message == [chatId |-> IF Has(m.chat_id) THEN Val(m.chat_id) ELSE NoJid,
                            chatType |-> IF Has(m.chat_id) /\ endsWithServer(Val(m.chat_id), "g.us")
                                           THEN "group" ELSE "direct",
                            senderId |-> IF Has(m.sender_id) THEN Val(m.sender_id) ELSE NoJid,
                            senderName |-> <<>>,
                            text |-> OrText(m.text, <<>>)]
                out == testMessage(rulesCache, message, World)
                w == out.world
            IN /\ wa_message' = w.wa_message
               /\ wa_chat' = w.wa_chat
               /\ wa_rule_fire' = w.wa_rule_fire
               /\ wa_cooldown' = w.wa_cooldown
               /\ wa_event_log' = w.wa_event_log
               /\ haCalls' = w.haCalls
               /\ waSends' = w.waSends
               /\ lastOp' = [op |-> "rules_test", body |-> body,
                             response |-> [status |-> 200, result |-> Some(out.result)]]
  /\ UNCHANGED <<wa_ruleset, rulesCache, now, skew, runs, syncVars, delivered>>

\* One second passes on the Store's clock; a timer that is due runs first.
Tick ==
  /\ (now % ResetDelay) < MaxTime
  /\ \A tm \in timers : tm.due > now
  /\ now' = now + 1
  /\ UNCHANGED <<storeVars, engineVars, skew, runs, syncVars, lastOp, delivered>>

Next ==
  \/ \E event \in Events, env \in Envs : Webhook(event, env)
  \/ \E body \in TestBodies : PostRulesTest(body)
  \/ Tick

Spec == Init /\ [][Next]_vars

----------------------------------------------------------------------------
\* The rule routes that write (routes/rules.ts).

\* PUT /api/rules.  lastOp keeps the row the request found (history).
PutRules(body) ==
  /\ wa_ruleset.version < MaxSaves + 2
  /\ IF ~Has(body.yaml)
       THEN /\ lastOp' = [op |-> "rules_put", body |-> body, before |-> wa_ruleset,
                          response |-> [status |-> 400, success |-> FALSE, rule_count |-> 0]]
            /\ UNCHANGED <<wa_ruleset, rulesCache>>
       ELSE LET out == saveRules(wa_ruleset, rulesCache, Val(body.yaml))
            IN /\ wa_ruleset' = out.row
               /\ rulesCache' = out.cache
               /\ lastOp' = [op |-> "rules_put", body |-> body, before |-> wa_ruleset,
                             response |-> IF out.result.valid
                                            THEN [status |-> 200, success |-> TRUE,
                                                  rule_count |-> out.result.ruleCount]
                                            ELSE [status |-> 400, success |-> FALSE,
                                                  rule_count |-> 0]]
  /\ UNCHANGED <<wa_message, wa_chat, wa_rule_fire, wa_cooldown, wa_event_log,
                 haCalls, waSends, now, skew, runs, syncVars, delivered>>

\* POST /api/rules/reload
PostReload ==
  /\ rulesCache' = reloadRules(wa_ruleset)
  /\ lastOp' = [op |-> "rules_reload", response |-> [status |-> 200, success |-> TRUE]]
  /\ UNCHANGED <<storeVars, haCalls, waSends, now, skew, runs, syncVars, delivered>>

\* The texts an operator sends: written by hand, or the normalized_yaml that
\* POST /api/rules/validate answered.
PutBodies ==
  {[yaml |-> Some(Yaml(d))] : d \in ValidDocs \cup InvalidDocs}
  \cup {[yaml |-> validateYaml(Yaml(d)).normalizedYaml] : d \in ValidDocs}
  \cup {[yaml |-> Some(BrokenYaml)], [yaml |-> None]}

NextRules ==
  \/ \E body \in PutBodies : PutRules(body)
  \/ PostReload
  \/ \E body \in TestBodies : PostRulesTest(body)

SpecRules == Init /\ [][NextRules]_vars

----------------------------------------------------------------------------
\* The chat sync (POST /api/wa/chats/refresh and its background job).  The job
\* is split at its awaits: jobs[k].pc names the call job k is waiting for.

GatewayNow == now + skew

Busy == {"fetching_groups", "fetching_contacts", "saving"}

Running == {k \in 1..Len(jobs) : jobs[k].pc # "done"}

\* id NOT LIKE '%@s.whatsapp.net' AND id NOT LIKE '%@g.us' AND id NOT LIKE '%@c.us'
NotLikeValid(id) == id.server \notin {"s.whatsapp.net", "g.us", "c.us"}

\* The merge loop over [...groups, ...contacts]: a later entry with the id of
\* an earlier one replaces it, in place, when its name is longer or it alone
\* has a lastMessageAt.
RECURSIVE mergeChats(_, _)
mergeChats(list, acc) ==
  IF list = <<>> THEN acc
  ELSE LET chat == Head(list)
           at == {i \in 1..Len(acc) : acc[i].id = chat.id}
           i == CHOOSE i \in at : TRUE
       IN IF at = {} THEN mergeChats(Tail(list), Append(acc, chat))
          ELSE IF \/ Len(chat.name) > Len(acc[i].name)
                  \/ Has(chat.lastMessageAt) /\ ~Has(acc[i].lastMessageAt)
            THEN mergeChats(Tail(list), [acc EXCEPT ![i] = chat])
          ELSE mergeChats(Tail(list), acc)

\* INSERT INTO wa_chat ... VALUES (..., NOW()) ON DUPLICATE KEY UPDATE name,
\* phone_number, last_message_at, updated_at = NOW(), for each chat in turn.
RECURSIVE upsertChats(_, _, _)
upsertChats(chats, list, t) ==
  IF list = <<>> THEN chats
  ELSE LET chat == Head(list)
           id == Val(chat.id)
           row == IF id \in DOMAIN chats
                    THEN [chats[id] EXCEPT
                            !.name = chat.name,
                            !.last_message_at = OrOpt(chat.lastMessageAt, @),
                            !.updated_at = t]
                    ELSE [type |-> chat.type, name |-> chat.name, phone_number |-> None,
                          enabled |-> TRUE, last_message_at |-> chat.lastMessageAt,
                          created_at |-> t, updated_at |-> t]
       IN upsertChats([c \in DOMAIN chats \cup {id} |-> IF c = id THEN row ELSE chats[c]],
                      Tail(list), t)

\* DELETE FROM wa_chat WHERE updated_at < ? OR (id NOT LIKE ... AND ...)
deleteStale(chats, syncStartTime) ==
  LET kept == {c \in DOMAIN chats :
                 ~(chats[c].updated_at < syncStartTime \/ NotLikeValid(c))}
  IN [c \in kept |-> chats[c]]

\* The handler with a running check that leaves out 'saving'.
RefreshRequestUnlessFetching ==
  /\ IF refreshProgress.status \in {"fetching_groups", "fetching_contacts"}
       THEN /\ lastOp' = [op |-> "chats_refresh",
                          response |-> [success |-> FALSE, status |-> "already_running"]]
            /\ UNCHANGED <<refreshProgress, jobs>>
       ELSE /\ Len(jobs) < MaxSyncs
            /\ refreshProgress' = [IdleProgress EXCEPT !.status = "fetching_groups",
                                                       !.startedAt = Some(GatewayNow)]
            /\ jobs' = Append(jobs, [pc |-> "listGroups", groups |-> <<>>, contacts |-> <<>>,
                                     syncStartTime |-> 0, allChats |-> <<>>,
                                     requestedAt |-> now, threw |-> None])
            /\ lastOp' = [op |-> "chats_refresh",
                          response |-> [success |-> TRUE, status |-> "started"]]
  /\ UNCHANGED <<storeVars, engineVars, now, skew, runs, timers, upstream, delivered>>

\* The handler of POST /api/wa/chats/refresh, up to the job's first await.
\* requestedAt is the Store's clock at that moment (history).
RefreshRequest ==
  /\ IF refreshProgress.status # "idle" /\ refreshProgress.status # "complete"
        /\ refreshProgress.status # "error"
       THEN /\ lastOp' = [op |-> "chats_refresh",
                          response |-> [success |-> FALSE, status |-> "already_running"]]
            /\ UNCHANGED <<refreshProgress, jobs>>
       ELSE /\ Len(jobs) < MaxSyncs
            /\ refreshProgress' = [IdleProgress EXCEPT !.status = "fetching_groups",
                                                       !.startedAt = Some(GatewayNow)]
            /\ jobs' = Append(jobs, [pc |-> "listGroups", groups |-> <<>>, contacts |-> <<>>,
                                     syncStartTime |-> 0, allChats |-> <<>>,
                                     requestedAt |-> now, threw |-> None])
            /\ lastOp' = [op |-> "chats_refresh",
                          response |-> [success |-> TRUE, status |-> "started"]]
  /\ UNCHANGED <<storeVars, engineVars, now, skew, runs, timers, upstream, delivered>>

\* listGroups has returned: the job runs up to the call of listContacts.
SyncGroupsFetched(k) ==
  /\ k \in 1..Len(jobs) /\ jobs[k].pc = "listGroups"
  /\ LET groups == listGroups(upstream)
     IN /\ jobs' = [jobs EXCEPT ![k].groups = groups, ![k].pc = "listContacts"]
        /\ refreshProgress' = [refreshProgress EXCEPT !.groupsCount = Len(groups),
                                                      !.status = "fetching_contacts"]
  /\ UNCHANGED <<storeVars, engineVars, now, skew, runs, timers, upstream, lastOp, delivered>>

\* listContacts has returned: the job takes syncStartTime from the gateway's
\* clock, merges, and runs up to the transaction.
SyncContactsFetched(k) ==
  /\ k \in 1..Len(jobs) /\ jobs[k].pc = "listContacts"
  /\ LET contacts == listContacts(upstream)
         allChats == mergeChats(jobs[k].groups \o contacts, <<>>)
     IN /\ jobs' = [jobs EXCEPT ![k].contacts = contacts, ![k].pc = "transaction",
                                ![k].syncStartTime = GatewayNow,
                                ![k].allChats = allChats]
        /\ refreshProgress' = [refreshProgress EXCEPT !.contactsCount = Len(contacts),
                                                      !.status = "saving",
                                                      !.totalCount = Len(allChats)]
  /\ UNCHANGED <<storeVars, engineVars, now, skew, runs, timers, upstream, lastOp, delivered>>

\* The transaction has committed: the job runs up to the DELETE.
SyncSaved(k) ==
  /\ k \in 1..Len(jobs) /\ jobs[k].pc = "transaction"
  /\ \A i \in 1..Len(jobs[k].allChats) : Has(jobs[k].allChats[i].id)
  /\ wa_chat' = upsertChats(wa_chat, jobs[k].allChats, now)
  /\ jobs' = [jobs EXCEPT ![k].pc = "delete"]
  /\ UNCHANGED <<wa_message, wa_ruleset, wa_rule_fire, wa_cooldown, wa_event_log,
                 engineVars, now, skew, runs, refreshProgress, timers, upstream, lastOp, delivered>>

\* A catch block that ends the job without touching the progress record.
SyncSaveFailedSilently(k) ==
  /\ k \in 1..Len(jobs) /\ jobs[k].pc = "transaction"
  /\ jobs' = [jobs EXCEPT ![k].pc = "done"]
  /\ UNCHANGED <<storeVars, engineVars, now, skew, runs, refreshProgress, timers, upstream,
                 lastOp, delivered>>

\* What a statement that fails inside the transaction throws (error.message).
TransactionErrors == {"Deadlock found when trying to get lock", "Connection lost"}

\* A connection that commits each statement as it runs: conn.rollback() finds
\* nothing to undo.
rollbackNothing(before, written) == written

\* conn.rollback(): the table as it was at beginTransaction, whatever the
\* statements run on the connection since then wrote.
rollback(before, written) == before

\* The transaction has thrown after `upserted` of its upserts ran (none when
\* getConnection or beginTransaction throws, all when commit throws) and was
\* rolled back: the catch block.  The job keeps what was thrown (history).
SyncSaveFailed(k) ==
  /\ k \in 1..Len(jobs) /\ jobs[k].pc = "transaction"
  /\ \E upserted \in 0..Len(jobs[k].allChats), message \in TransactionErrors :
       LET written == upsertChats(wa_chat, SubSeq(jobs[k].allChats, 1, upserted), now)
       IN /\ \A i \in 1..upserted : Has(jobs[k].allChats[i].id)
          /\ wa_chat' = rollback(wa_chat, written)
          /\ jobs' = [jobs EXCEPT ![k].pc = "done", ![k].threw = Some(message)]
          /\ refreshProgress' = [refreshProgress EXCEPT !.status = "error",
                                                        !.error = Some(message),
                                                        !.completedAt = Some(GatewayNow)]
  /\ UNCHANGED <<wa_message, wa_ruleset, wa_rule_fire, wa_cooldown, wa_event_log,
                 engineVars, now, skew, runs, timers, upstream, lastOp, delivered>>

\* The DELETE has returned: the job completes and arms the reset timer.
SyncCleaned(k) ==
  /\ k \in 1..Len(jobs) /\ jobs[k].pc = "delete"
  /\ wa_chat' = deleteStale(wa_chat, jobs[k].syncStartTime)
  /\ jobs' = [jobs EXCEPT ![k].pc = "done"]
  /\ refreshProgress' = [refreshProgress EXCEPT !.status = "complete",
                                                !.completedAt = Some(GatewayNow)]
  /\ timers' = timers \cup {[job |-> k, due |-> now + ResetDelay]}
  /\ UNCHANGED <<wa_message, wa_ruleset, wa_rule_fire, wa_cooldown, wa_event_log,
                 engineVars, now, skew, runs, upstream, lastOp, delivered>>

\* The setTimeout callback.
ResetTimer(tm) ==
  /\ tm \in timers /\ tm.due <= now
  /\ timers' = timers \ {tm}
  /\ refreshProgress' = IF refreshProgress.status = "complete"
                          THEN [refreshProgress EXCEPT !.status = "idle"]
                          ELSE refreshProgress
  /\ UNCHANGED <<storeVars, engineVars, now, skew, runs, jobs, upstream, lastOp, delivered>>

\* Time passes until the next timer is due.
WaitForTimer ==
  /\ timers # {}
  /\ \A tm \in timers : tm.due > now
  /\ now' = CHOOSE d \in {tm.due : tm \in timers} : \A tm \in timers : d <= tm.due
  /\ UNCHANGED <<storeVars, engineVars, skew, runs, syncVars, lastOp, delivered>>

InitSync ==
  /\ InitCommon
  /\ wa_chat = SeenChats
  /\ wa_ruleset = InitialRuleSetRow
  /\ rulesCache = reloadRules(wa_ruleset)
  /\ skew \in Skews
  /\ upstream \in Upstreams

NextSync ==
  \/ RefreshRequest
  \/ \E k \in 1..Len(jobs) : SyncGroupsFetched(k)
  \/ \E k \in 1..Len(jobs) : SyncContactsFetched(k)
  \/ \E k \in 1..Len(jobs) : SyncSaved(k)
  \/ \E k \in 1..Len(jobs) : SyncSaveFailed(k)
  \/ \E k \in 1..Len(jobs) : SyncCleaned(k)
  \/ \E tm \in timers : ResetTimer(tm)
  \/ WaitForTimer
  \/ Tick

SpecSync == InitSync /\ [][NextSync]_vars

\* The sync when every call the job awaits returns: each listing resolves
\* (listGroups and listContacts catch their own failures), the transaction
\* commits or throws, and the DELETE returns.
SyncFairness ==
  /\ WF_vars(\E k \in 1..Len(jobs) : SyncGroupsFetched(k))
  /\ WF_vars(\E k \in 1..Len(jobs) : SyncContactsFetched(k))
  /\ WF_vars(\E k \in 1..Len(jobs) : SyncSaved(k) \/ SyncSaveFailed(k))
  /\ WF_vars(\E k \in 1..Len(jobs) : SyncCleaned(k))

\* The two clocks agree.
InitSyncLive == InitSync /\ skew = 0

\* Time passes from one reset timer to the next.
NextSyncLive ==
  \/ RefreshRequest
  \/ \E k \in 1..Len(jobs) : SyncGroupsFetched(k)
  \/ \E k \in 1..Len(jobs) : SyncContactsFetched(k)
  \/ \E k \in 1..Len(jobs) : SyncSaved(k)
  \/ \E k \in 1..Len(jobs) : SyncSaveFailed(k)
  \/ \E k \in 1..Len(jobs) : SyncCleaned(k)
  \/ \E tm \in timers : ResetTimer(tm)
  \/ WaitForTimer

SpecSyncLive == InitSyncLive /\ [][NextSyncLive]_vars /\ SyncFairness

----------------------------------------------------------------------------
\* Matching and dispatch: the webhook over rule sets that use every field of a
\* match clause, and over events of several kinds, with a Store that answers
\* and with a Store that rejects every statement.

TextSpacedPing == <<" ", "P", "i", "n", "g">>

MatchEventsUpsert == [MatchNothingSet EXCEPT !.events = Some(<<UpsertUpper>>)]

\* sender.ids holds the group member; sender.numbers holds another number.
MatchSenderOther ==
  [MatchNothingSet EXCEPT
     !.sender = Some([ids |-> Some(<<Member>>), numbers |-> Some(<<"31600000009">>)])]

\* sender.ids and sender.numbers both hold the group member.
MatchSenderBoth ==
  [MatchNothingSet EXCEPT
     !.sender = Some([ids |-> Some(<<Member>>), numbers |-> Some(<<Member.user>>)])]

MatchChatAny == [MatchNothingSet EXCEPT !.chat = Some([type |-> Some("any"), ids |-> None])]

MatchEmptyIds ==
  [MatchNothingSet EXCEPT
     !.chat = Some([type |-> None, ids |-> Some(<<>>)]),
     !.sender = Some([ids |-> Some(<<>>), numbers |-> None])]

MatchStartsPing ==
  [MatchNothingSet EXCEPT
     !.text = Some([contains |-> None, starts_with |-> Some(TextPingLower), regex |-> None])]

MatchContainsAny ==
  [MatchNothingSet EXCEPT
     !.text = Some([contains |-> Some(<<TextHi, TextPing>>), starts_with |-> None,
                    regex |-> None])]

\* One enabled rule with every default, a match clause and a list of actions.
OneRule(match, actions) == MkDoc(<<MkRule("r1", Some(TRUE), None, None, None, match, actions)>>)

\* The rule sets of this part: a rule whose first action is refused and whose
\* others are not, ahead of a catch-all; priorities 0, negative and equal, with a disabled rule; and
\* one rule for each kind of match clause.
EngineDocs ==
  {MkDoc(<<MkRule("r1", Some(TRUE), Some(1), Some(FALSE), None, MatchPing,
                  <<ActShell, ActReply, ActScript>>),
           MkRule("r2", Some(TRUE), Some(2), None, None, MatchAll, <<ActScript>>)>>),
   MkDoc(<<RuleAll, RulePing(Some(0), Some(FALSE), None)>>),
   MkDoc(<<MkRule("r2", Some(TRUE), Some(5), Some(FALSE), None, MatchAll, <<ActReply>>),
           MkRule("r1", Some(TRUE), Some(-1), Some(FALSE), None, MatchPing, <<ActScript>>),
           MkRule("r4", Some(TRUE), Some(5), Some(FALSE), None, MatchPing, <<ActReply>>),
           MkRule("r3", Some(FALSE), Some(-7), None, None, MatchAll, <<ActReply>>)>>),
   OneRule(MatchEventsUpsert, <<ActScript>>),
   OneRule(MatchSenderOther, <<ActScript>>),
   OneRule(MatchSenderBoth, <<ActScript>>),
   OneRule(MatchChatAny, <<ActScript>>),
   OneRule(MatchEmptyIds, <<ActScript>>),
   OneRule(MatchAll, <<ActScript>>),
   OneRule(MatchStartsPing, <<ActReply>>),
   OneRule(MatchContainsAny, <<ActReply>>)}

EngineRows ==
  {[yaml_text |-> Yaml(d), parsed_json |-> Some(jsonStringify(d)), version |-> 2] :
     d \in EngineDocs}

EvSpaced == Envelope(UpsertUpper, MkData(MsgKey(ChatA, Some(<<"m6">>), FALSE, None), MsgBody(Some(TextSpacedPing)), None, None))

EngineEvents == {EvM1, EvM3, EvSpaced, EvSelf, EvConnection, EvCall, EvMalformed}

InitEngine ==
  /\ InitCommon
  /\ wa_chat = <<>>
  /\ wa_ruleset \in EngineRows
  /\ rulesCache = reloadRules(wa_ruleset)
  /\ skew = 0
  /\ upstream = UpstreamDown

\* The body of router.post('/evolution') while the Store rejects every
\* statement: logEvent swallows its failure, the first statement of the
\* handlers (the dedup SELECT, the cooldown sweep) throws into the catch block.
\* Nothing is written; the result is the HTTP response.
postEvolutionStoreDown(cache, event) ==
  LET eventType == normaliseEventType(IF Has(event.event) THEN Val(event.event) ELSE EmptyKind)
      meta == extractEventMeta(eventType, event)
      data == event.data
      text == OrText(MessageField(data, "conversation"),
                OrText(MessageField(data, "extendedText"),
                  OrText(MessageField(data, "imageCaption"),
                    OrText(MessageField(data, "videoCaption"), <<>>))))
      queried ==
        IF eventType = Kind(<<"messages", "upsert">>)
          THEN /\ Has(data) /\ Has(Val(data).key) /\ Has(Val(data).message)
               /\ KeyField(data, "fromMe") # Some(TRUE)
               /\ text # <<>>
          ELSE Has(cache) /\ sortedRules(Val(cache)) # <<>>
  IN [status |-> 200, received |-> TRUE, error |-> meta.threw \/ queried]

\* POST /webhook/evolution while the Store is down.
WebhookStoreDown(event) ==
  /\ lastOp' = [op |-> "webhook", body |-> event,
                response |-> postEvolutionStoreDown(rulesCache, event)]
  /\ UNCHANGED <<storeVars, engineVars, now, skew, runs, syncVars, delivered>>

NextEngine ==
  \/ \E event \in EngineEvents, env \in Envs : Webhook(event, env)
  \/ \E event \in EngineEvents : WebhookStoreDown(event)

SpecEngine == InitEngine /\ [][NextEngine]_vars

----------------------------------------------------------------------------
\* The test route beside the webhook, over the rule sets of both parts above:
\* what POST /api/rules/test reports and what a delivery fires are computed
\* from the one cached rule set.

CompareRows == BootRows \cup EngineRows

CompareEvents == {EvM1, EvM3, EvSpaced, EvConnection}

InitCompare ==
  /\ InitCommon
  /\ wa_chat = <<>>
  /\ wa_ruleset \in CompareRows
  /\ rulesCache = reloadRules(wa_ruleset)
  /\ skew = 0
  /\ upstream = UpstreamDown

NextCompare ==
  \/ \E event \in CompareEvents, env \in Envs : Webhook(event, env)
  \/ \E body \in TestBodies : PostRulesTest(body)
  \/ Tick

SpecCompare == InitCompare /\ [][NextCompare]_vars

----------------------------------------------------------------------------
\* The provider listings on their own: listGroups and listContacts against
\* every combination of answers of the three endpoints.

ChatG2 == [user |-> "120363000000000002", server |-> "g.us"]

NameOps == <<"O", "p", "s">>

\* A chat object that carries its JID as remoteJid only.
RawRemote(id, name) ==
  [id |-> None, remoteJid |-> Some(id), subject |-> None, name |-> Some(name),
   pushName |-> None, timestamp |-> None, lastMsgTimestamp |-> Some(1)]

GroupAnswers == {Failure, Answer(<<>>), Answer(<<RawGroup(ChatG, NameFam)>>)}

ContactAnswers ==
  {Failure, Answer(<<>>), Answer(<<RawChat(ChatA, NameAnn), RawChat(ChatLid, NameBo)>>)}

ChatAnswers ==
  {Failure, Answer(<<>>),
   Answer(<<RawChat(ChatG, NameFam), RawChat(ChatA, NameAnn), RawChat(ChatLid, NameBo)>>),
   Answer(<<RawRemote(ChatG2, NameOps), RawRemote(ChatOld, NameBo)>>),
   Answer(<<RawChat(ChatG, NameFam), RawRemote(ChatG2, NameOps), RawChat(ChatA, NameAnn),
            RawRemote(ChatOld, NameBo)>>)}

ListingUpstreams ==
  {[fetchAllGroups |-> g, findContacts |-> c, findChats |-> f] :
     g \in GroupAnswers, c \in ContactAnswers, f \in ChatAnswers}

\* A caller of listGroups; the call and what it returned are kept in lastOp.
ListGroups ==
  /\ lastOp' = [op |-> "listGroups", result |-> listGroups(upstream)]
  /\ UNCHANGED <<storeVars, engineVars, now, skew, runs, syncVars, delivered>>

\* A caller of listContacts.
ListContacts ==
  /\ lastOp' = [op |-> "listContacts", result |-> listContacts(upstream)]
  /\ UNCHANGED <<storeVars, engineVars, now, skew, runs, syncVars, delivered>>

InitListing ==
  /\ InitCommon
  /\ wa_chat = SeenChats
  /\ wa_ruleset = InitialRuleSetRow
  /\ rulesCache = reloadRules(wa_ruleset)
  /\ skew = 0
  /\ upstream \in ListingUpstreams

NextListing == ListGroups \/ ListContacts

SpecListing == InitListing /\ [][NextListing]_vars

----------------------------------------------------------------------------
\* A webhook invocation for a MESSAGES_UPSERT event, followed await by await,
\* so that invocations interleave with one another and with the rule routes.
\* runs[k].pc names the call run k is waiting for.

MaxRuns == 2

\* The locals handleMessageUpsert computes from the event before its first
\* await.
upsertLocals(event, eventType) ==
  LET data == event.data
      chatId == OrJid(KeyField(data, "remoteJid"), NoJid)
      senderName == OrText(DataField(data, "pushName"), <<>>)
  IN [fromMe |-> KeyField(data, "fromMe") = Some(TRUE),
      chatId |-> chatId,
      messageId |-> OrText(KeyField(data, "id"), <<>>),
      senderId |-> OrJid(KeyField(data, "participant"), chatId),
      senderName |-> senderName,
      text |-> OrText(MessageField(data, "conversation"),
                 OrText(MessageField(data, "extendedText"),
                   OrText(MessageField(data, "imageCaption"),
                     OrText(MessageField(data, "videoCaption"), <<>>)))),
      chatType |-> chatTypeOf(chatId),
      eventType |-> eventType]

\* The IncomingMessage handleMessageUpsert hands to the engine.
incomingMessage(l) ==
  [chatId |-> l.chatId, chatType |-> l.chatType, senderId |-> l.senderId,
   senderName |-> l.senderName, text |-> l.text, messageId |-> l.messageId,
   event |-> l.eventType]

\* The route up to the dedup SELECT: the event is logged, and the handler
\* returns early for an event without key or message, a self-sent message and
\* a message without text.
RunReceive(event, env) ==
  /\ Len(runs) < MaxRuns
  /\ LET eventType == normaliseEventType(IF Has(event.event) THEN Val(event.event) ELSE EmptyKind)
         instance == IF Has(event.instance) THEN Val(event.instance) ELSE ""
         meta == extractEventMeta(eventType, event)
         data == event.data
         l == upsertLocals(event, eventType)
         returns == \/ ~Has(data) \/ ~Has(Val(data).key) \/ ~Has(Val(data).message)
                    \/ l.fromMe
                    \/ l.text = <<>>
     IN /\ eventType = Kind(<<"messages", "upsert">>)
        /\ ~meta.threw
        /\ wa_event_log' = logEvent(wa_event_log, eventType, instance, meta.chatId,
                                    meta.senderId, meta.summary, now)
        /\ runs' = Append(runs,
             [pc |-> IF returns THEN "done" ELSE "dedup", locals |-> l, env |-> env,
              dbMessageId |-> 0, sortedRules |-> <<>>, i |-> 0,
              engine |-> "none", threw |-> FALSE,
              startedWith |-> None, evaluated |-> <<>>, trace |-> <<>>,
              receivedAfter |-> {j \in 1..Len(runs) : runs[j].pc = "done"}])
  /\ UNCHANGED <<wa_message, wa_chat, wa_ruleset, wa_rule_fire, wa_cooldown,
                 engineVars, now, skew, syncVars, lastOp, delivered>>

\* The dedup SELECT has returned.
RunDedup(k) ==
  /\ k \in 1..Len(runs) /\ runs[k].pc = "dedup"
  /\ runs' = [runs EXCEPT ![k].pc =
                IF findMessageId(wa_message, runs[k].locals.messageId) # {}
                  THEN "done" ELSE "insert"]
  /\ UNCHANGED <<storeVars, engineVars, now, skew, syncVars, lastOp, delivered>>

\* An INSERT that writes the row as already processed.
RunInsertProcessed(k) ==
  /\ k \in 1..Len(runs) /\ runs[k].pc = "insert"
  /\ LET l == runs[k].locals
     IN IF findMessageId(wa_message, l.messageId) # {}
          THEN /\ runs' = [runs EXCEPT ![k].pc = "done", ![k].threw = TRUE]
               /\ UNCHANGED wa_message
          ELSE /\ wa_message' = Append(wa_message,
                    [provider_message_id |-> l.messageId, chat_id |-> l.chatId,
                     sender_id |-> l.senderId, sender_name |-> l.senderName,
                     text |-> l.text, message_type |-> "text",
                     received_at |-> now, processed |-> TRUE])
               /\ runs' = [runs EXCEPT ![k].pc = "chat",
                                       ![k].dbMessageId = Len(wa_message) + 1]
  /\ UNCHANGED <<wa_chat, wa_ruleset, wa_rule_fire, wa_cooldown, wa_event_log,
                 engineVars, now, skew, syncVars, lastOp, delivered>>

\* An INSERT into a table without the UNIQUE key on provider_message_id: the
\* row is always written.
RunInsertDuplicating(k) ==
  /\ k \in 1..Len(runs) /\ runs[k].pc = "insert"
  /\ LET l == runs[k].locals
     IN /\ wa_message' = Append(wa_message,
             [provider_message_id |-> l.messageId, chat_id |-> l.chatId,
              sender_id |-> l.senderId, sender_name |-> l.senderName,
              text |-> l.text, message_type |-> "text",
              received_at |-> now, processed |-> FALSE])
        /\ runs' = [runs EXCEPT ![k].pc = "chat",
                                ![k].dbMessageId = Len(wa_message) + 1]
  /\ UNCHANGED <<wa_chat, wa_ruleset, wa_rule_fire, wa_cooldown, wa_event_log,
                 engineVars, now, skew, syncVars, lastOp, delivered>>

\* The INSERT INTO wa_message has returned, or has thrown into the route's
\* catch block because another invocation inserted the same
\* provider_message_id (UNIQUE) in the meantime.
RunInsert(k) ==
  /\ k \in 1..Len(runs) /\ runs[k].pc = "insert"
  /\ LET l == runs[k].locals
     IN IF findMessageId(wa_message, l.messageId) # {}
          THEN /\ runs' = [runs EXCEPT ![k].pc = "done", ![k].threw = TRUE]
               /\ UNCHANGED wa_message
          ELSE /\ wa_message' = Append(wa_message,
                    [provider_message_id |-> l.messageId, chat_id |-> l.chatId,
                     sender_id |-> l.senderId, sender_name |-> l.senderName,
                     text |-> l.text, message_type |-> "text",
                     received_at |-> now, processed |-> FALSE])
               /\ runs' = [runs EXCEPT ![k].pc = "chat",
                                       ![k].dbMessageId = Len(wa_message) + 1]
  /\ UNCHANGED <<wa_chat, wa_ruleset, wa_rule_fire, wa_cooldown, wa_event_log,
                 engineVars, now, skew, syncVars, lastOp, delivered>>

\* The INSERT INTO wa_chat has returned: the handler builds the message and
\* calls processMessage, which runs up to its first await: it returns at once
\* without a cached rule set, and otherwise copies, filters and sorts the
\* cached rules.  startedWith is the cache at that moment (history).
RunTouchChat(k) ==
  /\ k \in 1..Len(runs) /\ runs[k].pc = "chat"
  /\ LET l == runs[k].locals
         sorted == IF Has(rulesCache) THEN sortedRules(Val(rulesCache)) ELSE <<>>
     IN /\ wa_chat' = touchChat(wa_chat, l.chatId, l.chatType,
                                IF l.senderName # <<>> THEN l.senderName ELSE <<l.chatId.user>>,
                                now)
        /\ runs' = [runs EXCEPT ![k].sortedRules = sorted,
                                ![k].i = 1,
                                ![k].startedWith = rulesCache,
                                ![k].engine = IF sorted = <<>> THEN "returned" ELSE "running",
                                ![k].pc = IF sorted = <<>> THEN "mark" ELSE "rule"]
  /\ UNCHANGED <<wa_message, wa_ruleset, wa_rule_fire, wa_cooldown, wa_event_log,
                 engineVars, now, skew, syncVars, lastOp, delivered>>

\* One iteration of the loop that takes its rule from the cache as it is now.
RunRuleRereading(k) ==
  /\ k \in 1..Len(runs) /\ runs[k].pc = "rule"
  /\ LET run == runs[k]
         current == IF Has(rulesCache) THEN sortedRules(Val(rulesCache)) ELSE <<>>
         rule == current[run.i]
         out == processRulesFrom(<<rule>>, 1, incomingMessage(run.locals),
                                 Some(run.dbMessageId), World, run.env, now)
         matched == out.trace # <<>> /\ out.trace[1].log = "matched"
         last == \/ run.i >= Len(current)
                 \/ matched /\ rule.stop_on_match # Some(FALSE)
     IN IF run.i > Len(current)
          THEN /\ runs' = [runs EXCEPT ![k].engine = "returned", ![k].pc = "mark"]
               /\ UNCHANGED <<wa_rule_fire, wa_cooldown, haCalls, waSends>>
          ELSE /\ wa_rule_fire' = out.wa_rule_fire
               /\ wa_cooldown' = out.wa_cooldown
               /\ haCalls' = out.haCalls
               /\ waSends' = out.waSends
               /\ runs' = [runs EXCEPT ![k].evaluated = Append(@, rule),
                                       ![k].trace = @ \o out.trace,
                                       ![k].i = @ + 1,
                                       ![k].engine = IF last THEN "returned" ELSE "running",
                                       ![k].pc = IF last THEN "mark" ELSE "rule"]
  /\ UNCHANGED <<wa_message, wa_chat, wa_ruleset, wa_event_log, rulesCache,
                 now, skew, syncVars, lastOp, delivered>>

\* One iteration of the loop of processMessage over its sorted copy: the
\* cooldown check, the match, the actions, the RuleFire row, the cooldown, and
\* the break after a match unless stop_on_match is false.  After the last
\* iteration processMessage returns.
RunRule(k) ==
  /\ k \in 1..Len(runs) /\ runs[k].pc = "rule"
  /\ LET run == runs[k]
         rule == run.sortedRules[run.i]
         out == processRulesFrom(<<rule>>, 1, incomingMessage(run.locals),
                                 Some(run.dbMessageId), World, run.env, now)
         matched == out.trace # <<>> /\ out.trace[1].log = "matched"
         last == \/ run.i = Len(run.sortedRules)
                 \/ matched /\ rule.stop_on_match # Some(FALSE)
     IN /\ wa_rule_fire' = out.wa_rule_fire
        /\ wa_cooldown' = out.wa_cooldown
        /\ haCalls' = out.haCalls
        /\ waSends' = out.waSends
        /\ runs' = [runs EXCEPT ![k].evaluated = Append(@, rule),
                                ![k].trace = @ \o out.trace,
                                ![k].i = @ + 1,
                                ![k].engine = IF last THEN "returned" ELSE "running",
                                ![k].pc = IF last THEN "mark" ELSE "rule"]
  /\ UNCHANGED <<wa_message, wa_chat, wa_ruleset, wa_event_log, rulesCache,
                 now, skew, syncVars, lastOp, delivered>>

\* A Store statement of the engine (the cooldown sweep) is rejected: the
\* exception leaves processMessage and handleMessageUpsert for the route's
\* catch block.
RunRuleFailed(k) ==
  /\ k \in 1..Len(runs) /\ runs[k].pc = "rule"
  /\ runs' = [runs EXCEPT ![k].engine = "threw", ![k].threw = TRUE, ![k].pc = "done"]
  /\ UNCHANGED <<storeVars, engineVars, now, skew, syncVars, lastOp, delivered>>

\* processMessage has returned: UPDATE wa_message SET processed = 1.
RunMark(k) ==
  /\ k \in 1..Len(runs) /\ runs[k].pc = "mark"
  /\ wa_message' = [wa_message EXCEPT ![runs[k].dbMessageId].processed = TRUE]
  /\ runs' = [runs EXCEPT ![k].pc = "done"]
  /\ UNCHANGED <<wa_chat, wa_ruleset, wa_rule_fire, wa_cooldown, wa_event_log,
                 engineVars, now, skew, syncVars, lastOp, delivered>>

\* What the route answers when the invocation is over: 200 from the end of
\* the try block, and 200 with the error's message from the catch block.
routeResponse(run) ==
  IF run.threw
    THEN [status |-> 200, received |-> TRUE, error |-> TRUE]
    ELSE [status |-> 200, received |-> TRUE, error |-> FALSE]

\* The rule sets in play: a chain of two rules, and a chain of three whose
\* rules differ from the first in every position.
RunDocs ==
  {MkDoc(<<MkRule("r1", Some(TRUE), Some(1), Some(FALSE), None, MatchPing, <<ActScript>>),
           MkRule("r2", Some(TRUE), Some(2), None, None, MatchAll, <<ActScript>>)>>),
   MkDoc(<<MkRule("r3", Some(TRUE), Some(1), Some(FALSE), None, MatchAll, <<ActReply>>),
           MkRule("r4", Some(TRUE), Some(2), Some(FALSE), None, MatchPing, <<ActReply>>),
           MkRule("r5", Some(TRUE), Some(3), None, None, MatchAll, <<ActReply>>)>>)}

RunRows ==
  {[yaml_text |-> Yaml(d), parsed_json |-> Some(jsonStringify(d)), version |-> 2] :
     d \in RunDocs}

RunTexts == {Yaml(d) : d \in RunDocs}

\* A saveRules call, from whatever caller, completes between two steps of
\* the runs.
RunSaveRules(yamlText) ==
  /\ wa_ruleset.version < MaxSaves + 2
  /\ LET out == saveRules(wa_ruleset, rulesCache, yamlText)
     IN /\ wa_ruleset' = out.row
        /\ rulesCache' = out.cache
  /\ UNCHANGED <<wa_message, wa_chat, wa_rule_fire, wa_cooldown, wa_event_log,
                 haCalls, waSends, now, skew, runs, syncVars, lastOp, delivered>>

\* A reloadRules call completes between two steps of the runs.
RunReloadRules ==
  /\ rulesCache' = reloadRules(wa_ruleset)
  /\ UNCHANGED <<storeVars, haCalls, waSends, now, skew, runs, syncVars, lastOp, delivered>>

RunEvents == {EvM1, EvM3}

RunEnvs == {[ha |-> TRUE, wa |-> TRUE]}

InitRun ==
  /\ InitCommon
  /\ wa_chat = <<>>
  /\ wa_ruleset \in RunRows
  /\ rulesCache = reloadRules(wa_ruleset)
  /\ skew = 0
  /\ upstream = UpstreamDown

NextRun ==
  \/ \E event \in RunEvents, env \in RunEnvs : RunReceive(event, env)
  \/ \E k \in 1..Len(runs) : RunDedup(k)
  \/ \E k \in 1..Len(runs) : RunInsert(k)
  \/ \E k \in 1..Len(runs) : RunTouchChat(k)
  \/ \E k \in 1..Len(runs) : RunRule(k)
  \/ \E k \in 1..Len(runs) : RunRuleFailed(k)
  \/ \E k \in 1..Len(runs) : RunMark(k)
  \/ \E yamlText \in RunTexts : RunSaveRules(yamlText)
  \/ RunReloadRules

SpecRun == InitRun /\ [][NextRun]_vars

\* The invocations with the scheduling of the event loop: a continuation
\* whose await has been answered runs, and the provider goes on delivering
\* while it has deliveries left.
RunFairness ==
  /\ WF_vars(\E event \in RunEvents, env \in RunEnvs : RunReceive(event, env))
  /\ \A k \in 1..MaxRuns :
        /\ WF_vars(RunDedup(k))
        /\ WF_vars(RunInsert(k))
        /\ WF_vars(RunTouchChat(k))
        /\ WF_vars(RunRule(k) \/ RunRuleFailed(k))
        /\ WF_vars(RunMark(k))

SpecRunLive == InitRun /\ [][NextRun]_vars /\ RunFairness

----------------------------------------------------------------------------
\* Messages the provider sends without key.id.  The handler takes
\* messageId = data.key.id || '' and uses it in the dedup SELECT and in the
\* INSERT alike.

\* A second message without id, of another text than EvNoId.
EvNoIdPing == Envelope(UpsertUpper, MkData(MsgKey(ChatA, None, FALSE, None), MsgBody(Some(TextPing)), None, None))

IdlessEvents == {EvNoId, EvNoIdPing, EvM1}

InitIdless == InitRun

NextIdless ==
  \/ \E event \in IdlessEvents, env \in RunEnvs : RunReceive(event, env)
  \/ \E k \in 1..Len(runs) : RunDedup(k)
  \/ \E k \in 1..Len(runs) : RunInsert(k)
  \/ \E k \in 1..Len(runs) : RunTouchChat(k)
  \/ \E k \in 1..Len(runs) : RunRule(k)
  \/ \E k \in 1..Len(runs) : RunMark(k)

SpecIdless == InitIdless /\ [][NextIdless]_vars

----------------------------------------------------------------------------
\* saveRules calls followed await by await.  Here runs holds the calls:
\* runs[k].pc names what call k is waiting for.  The UPDATE of each call runs
\* on a connection of its own from the pool; the Store executes the
\* statements one after another, and each call goes on when its own reply
\* has been read.

\* The texts sent: the rule sets of RunDocs, a single rule, and a text that
\* does not validate.
SaveTexts ==
  RunTexts \cup {Yaml(MkDoc(<<MkRule("r6", Some(TRUE), None, None, None, MatchAll, <<ActReply>>)>>)),
                 BrokenYaml}

\* saveRules up to its await: the text is validated and parsed, and the
\* UPDATE is sent.  An invalid text returns at once.
SaveCalled(yamlText) ==
  /\ Len(runs) < MaxRuns
  /\ LET validation == validateYaml(yamlText)
     IN runs' = Append(runs, [pc |-> IF validation.valid THEN "update" ELSE "returned",
                              yamlText |-> yamlText, result |-> validation,
                              wrote |-> None, returned |-> None])
  /\ UNCHANGED <<storeVars, engineVars, now, skew, syncVars, lastOp, delivered>>

\* The Store executes the UPDATE of call k.  The call keeps the version it
\* wrote (history).
SaveUpdated(k) ==
  /\ k \in 1..Len(runs) /\ runs[k].pc = "update"
  /\ wa_ruleset' = saveRules(wa_ruleset, rulesCache, runs[k].yamlText).row
  /\ runs' = [runs EXCEPT ![k].pc = "assign", ![k].wrote = Some(wa_ruleset'.version)]
  /\ UNCHANGED <<wa_message, wa_chat, wa_rule_fire, wa_cooldown, wa_event_log,
                 engineVars, now, skew, syncVars, lastOp, delivered>>

\* The reply to call k's UPDATE has been read: the call assigns the cache
\* and returns.  The call keeps how many writing calls returned before it
\* (history).
SaveReturned(k) ==
  /\ k \in 1..Len(runs) /\ runs[k].pc = "assign"
  /\ rulesCache' = saveRules(wa_ruleset, rulesCache, runs[k].yamlText).cache
  /\ runs' = [runs EXCEPT ![k].pc = "returned",
                          ![k].returned = Some(Cardinality({j \in 1..Len(runs) :
                                                             Has(runs[j].returned)}))]
  /\ UNCHANGED <<storeVars, haCalls, waSends, now, skew, syncVars, lastOp, delivered>>

InitSaves == InitRun

NextSaves ==
  \/ \E yamlText \in SaveTexts : SaveCalled(yamlText)
  \/ \E k \in 1..Len(runs) : SaveUpdated(k)
  \/ \E k \in 1..Len(runs) : SaveReturned(k)

SpecSaves == InitSaves /\ [][NextSaves]_vars

----------------------------------------------------------------------------
\* The chat table under the sync, the webhook and the operator's PATCH
\* together.  The rule set is the empty one, the two clocks agree, the
\* provider's primary listings answer, and the messages and the PATCH are
\* for the chat that the listings do not hold.

\* A message in the chat of SeenChats that the listings do not hold.
EvOld == Envelope(UpsertDotted, MkData(MsgKey(ChatOld, Some(<<"m7">>), FALSE, None), MsgBody(Some(TextHi)), None, None))

ChatEvents == {EvOld}

\* The bodies an operator sends: enabled true, false, or no enabled at all.
PatchBodies == {[enabled |-> None], [enabled |-> Some(TRUE)], [enabled |-> Some(FALSE)]}

PatchedChats == {ChatOld}

\* UPDATE wa_chat SET enabled = ?, updated_at = NOW() WHERE id = ?
setEnabled(chats, chatId, enabled, t) ==
  IF chatId \in DOMAIN chats
    THEN [chats EXCEPT ![chatId].enabled = enabled, ![chatId].updated_at = t]
    ELSE chats

\* PATCH /api/wa/chats/:chatId.  lastOp keeps whether the UPDATE found the
\* row (history).
PatchChat(chatId, body) ==
  /\ wa_chat' = IF Has(body.enabled)
                  THEN setEnabled(wa_chat, chatId, Val(body.enabled), now)
                  ELSE wa_chat
  /\ lastOp' = [op |-> "chats_patch", chatId |-> chatId, body |-> body,
                found |-> chatId \in DOMAIN wa_chat,
                response |-> [success |-> TRUE]]
  /\ UNCHANGED <<wa_message, wa_ruleset, wa_rule_fire, wa_cooldown, wa_event_log,
                 engineVars, now, skew, runs, syncVars, delivered>>

InitChats ==
  /\ InitCommon
  /\ wa_chat = SeenChats
  /\ wa_ruleset = InitialRuleSetRow
  /\ rulesCache = reloadRules(wa_ruleset)
  /\ skew = 0
  /\ upstream = UpstreamPrimary

NextChats ==
  \/ RefreshRequest
  \/ \E k \in 1..Len(jobs) : SyncGroupsFetched(k)
  \/ \E k \in 1..Len(jobs) : SyncContactsFetched(k)
  \/ \E k \in 1..Len(jobs) : SyncSaved(k)
  \/ \E k \in 1..Len(jobs) : SyncSaveFailed(k)
  \/ \E k \in 1..Len(jobs) : SyncCleaned(k)
  \/ \E event \in ChatEvents : Webhook(event, [ha |-> TRUE, wa |-> TRUE])
  \/ \E chatId \in PatchedChats, body \in PatchBodies : PatchChat(chatId, body)
  \/ Tick

SpecChats == InitChats /\ [][NextChats]_vars

----------------------------------------------------------------------------
\* The provider's instances (EvolutionClient.createInstance).  Here upstream
\* is the provider's side: the instances it holds and the create requests it
\* received.

MaxCalls == 4          \* createInstance calls in one behaviour

\* The configured instance and another one.
InstanceNames == {instanceName, "Work"}

Already == <<"a", "l", "r", "e", "a", "d", "y">>

\* The message of the provider's answer to a create request for a name it
\* holds: the text the client looks for, within a sentence.
AlreadyInUse == <<"i", "s", " ">> \o Already \o <<" ", "i", "n", " ", "u", "s", "e">>

\* The provider holds an instance of this name.
Holds(up, name) == \E i \in 1..Len(up.instances) : up.instances[i] = name

\* The request did not reach the provider, or its answer did not come back.
NoResponse == [response |-> None]

\* POST /instance/create as the client expects the provider to answer it: a
\* new name is created (the answer may or may not repeat the name), a name
\* the provider holds is refused with status 400 and a message that says so.
postInstanceCreate(up, name, echo) ==
  IF Holds(up, name)
    THEN [response |-> Some([status |-> 400,
                             data |-> [response |-> [message |-> AlreadyInUse]]])]
    ELSE [response |-> Some([status |-> 201,
                             data |-> [instance |-> [instanceName |->
                                         IF echo THEN Some(name) ELSE None]]])]

\* What the request leaves at the provider.
afterInstanceCreate(up, name, reached) ==
  [instances |-> IF reached /\ ~Holds(up, name)
                   THEN Append(up.instances, name) ELSE up.instances,
   requests |-> Append(up.requests, [instanceName |-> name, reached |-> reached])]

\* createInstance with a catch block that rethrows whatever it caught.
createInstanceRethrowing(name, answer) ==
  IF Has(answer.response) /\ Val(answer.response).status < 300
    THEN [threw |-> FALSE,
          value |-> Some([instanceName |->
                            IF Has(Val(answer.response).data.instance.instanceName)
                              THEN Val(Val(answer.response).data.instance.instanceName)
                              ELSE name,
                          status |-> "created"])]
    ELSE [threw |-> TRUE, value |-> None]

\* createInstance, given the outcome of its POST: axios resolves on a 2xx
\* answer and rejects otherwise, with error.response absent when no answer
\* came.
createInstance(name, answer) ==
  IF Has(answer.response) /\ Val(answer.response).status < 300
    THEN [threw |-> FALSE,
          value |-> Some([instanceName |->
                            IF Has(Val(answer.response).data.instance.instanceName)
                              THEN Val(Val(answer.response).data.instance.instanceName)
                              ELSE name,
                          status |-> "created"])]
  ELSE IF /\ Has(answer.response)
          /\ Val(answer.response).status = 400
          /\ includes(Val(answer.response).data.response.message, Already)
    THEN [threw |-> FALSE,
          value |-> Some([instanceName |-> name, status |-> "exists"])]
  ELSE [threw |-> TRUE, value |-> None]

\* One call of createInstance.
CreateInstance(name, reached, echo) ==
  /\ Len(upstream.requests) < MaxCalls
  /\ LET answer == IF reached THEN postInstanceCreate(upstream, name, echo)
                              ELSE NoResponse
     IN /\ upstream' = afterInstanceCreate(upstream, name, reached)
        /\ lastOp' = [op |-> "createInstance", instanceName |-> name,
                      result |-> createInstance(name, answer)]
  /\ UNCHANGED <<storeVars, engineVars, now, skew, runs, refreshProgress, jobs, timers,
                 delivered>>

InitInstance ==
  /\ InitCommon
  /\ wa_chat = SeenChats
  /\ wa_ruleset = InitialRuleSetRow
  /\ rulesCache = reloadRules(wa_ruleset)
  /\ skew = 0
  /\ upstream = [instances |-> <<>>, requests |-> <<>>]

NextInstance ==
  \E name \in InstanceNames, reached \in BOOLEAN, echo \in BOOLEAN :
     CreateInstance(name, reached, echo)

SpecInstance == InitInstance /\ [][NextInstance]_vars

----------------------------------------------------------------------------
\* What the properties below read off an event and off the history.

\* The provider message id an event carries ('' when it carries none).
ProviderId(e) == OrText(KeyField(e.data, "id"), <<>>)

\* A MESSAGES_UPSERT event with a provider message id and a text, not self-sent.
IsTextUpsert(e) ==
  /\ Has(e.event)
  /\ normaliseEventType(Val(e.event)) = Kind(<<"messages", "upsert">>)
  /\ ProviderId(e) # <<>>
  /\ KeyField(e.data, "fromMe") # Some(TRUE)
  /\ OrText(MessageField(e.data, "conversation"), <<>>) # <<>>

RowsWithId(m) == {k \in 1..Len(wa_message) : wa_message[k].provider_message_id = m}

\* The rules one webhook invocation fired, in order, by the engine's own log.
FiredBy(d) ==
  LET hits == SelectSeq(d.trace, LAMBDA x : x.log = "matched")
  IN [k \in 1..Len(hits) |-> hits[k].rule]

SkippedBy(d) == {d.trace[k].rule : k \in {n \in 1..Len(d.trace) : d.trace[n].log = "cooldown"}}

InSeq(x, q) == \E k \in 1..Len(q) : q[k] = x

\* The priority the rule set gives a rule: its own, or the default.
StatedPriority(r) == IF Has(r.priority) THEN Val(r.priority) ELSE DefaultPriority

----------------------------------------------------------------------------
\* C1: whatever the number of deliveries of a MESSAGES_UPSERT event that has a
\* provider message id and a text and is not self-sent, the Store holds
\* exactly one Message row with that provider message id.
C1_OneRowPerProviderId ==
  \A i \in 1..Len(delivered) :
    IsTextUpsert(delivered[i].event)
      => Cardinality(RowsWithId(ProviderId(delivered[i].event))) = 1

C1_Witness ==
  \E i, j \in 1..Len(delivered) :
    /\ i < j
    /\ IsTextUpsert(delivered[i].event)
    /\ delivered[j].event = delivered[i].event
    /\ Cardinality(RowsWithId(ProviderId(delivered[i].event))) = 1

\* C2: the second delivery of a MESSAGES_UPSERT event whose provider message
\* id was delivered before hands nothing to the rule engine, writes no
\* RuleFire row, calls no collaborator and writes no cooldown.
C2_DuplicateSkipsEngine ==
  [][(/\ Len(delivered') = Len(delivered) + 1
      /\ IsTextUpsert(delivered'[Len(delivered')].event)
      /\ \E i \in 1..Len(delivered) :
            /\ IsTextUpsert(delivered[i].event)
            /\ ProviderId(delivered[i].event) = ProviderId(delivered'[Len(delivered')].event))
     => /\ delivered'[Len(delivered')].handed = <<>>
        /\ wa_rule_fire' = wa_rule_fire
        /\ wa_cooldown' = wa_cooldown
        /\ haCalls' = haCalls
        /\ waSends' = waSends]_vars

C2_Witness ==
  \E i, j \in 1..Len(delivered) :
    /\ i < j
    /\ IsTextUpsert(delivered[i].event)
    /\ ProviderId(delivered[j].event) = ProviderId(delivered[i].event)
    /\ IsTextUpsert(delivered[j].event)
    /\ Len(delivered[i].handed) = 1
    /\ delivered[i].firesAfter = delivered[i].firesBefore + 1
    /\ delivered[j].handed = <<>>
    /\ delivered[j].firesAfter = delivered[j].firesBefore
    /\ wa_cooldown # {}

\* C3: the RuleFire rows one webhook invocation writes are, in order, one row
\* for each rule the engine matched and ran in that invocation; rules skipped
\* on cooldown, rules that did not match and rules behind a stopping rule add
\* no row, and an invocation that hands nothing to the engine writes none.
C3_OneFireRowPerFiredRule ==
  \A i \in 1..Len(delivered) :
    LET d == delivered[i]
    IN /\ d.firesAfter - d.firesBefore = Len(FiredBy(d))
       /\ d.firesAfter <= Len(wa_rule_fire)
       /\ \A k \in 1..Len(FiredBy(d)) : wa_rule_fire[d.firesBefore + k].rule_id = FiredBy(d)[k]
       /\ d.handed = <<>> => d.firesAfter = d.firesBefore

C3_Witness ==
  \E i \in 1..Len(delivered) :
    LET d == delivered[i]
    IN /\ SkippedBy(d) # {}
       /\ Len(FiredBy(d)) = 1
       /\ d.firesAfter = d.firesBefore + 1
       /\ \E k \in 1..Len(wa_rule_fire) : ~wa_rule_fire[k].success

\* C4: when the rule set holds two enabled rules that both match the event,
\* neither on cooldown, the one ordered first by priority (ties by position)
\* fires; it is the only one to fire when its stop_on_match is true or
\* omitted, and the other fires after it when its stop_on_match is false.
C4_StopOnMatch ==
  \A i \in 1..Len(delivered) :
    LET d == delivered[i]
        rules == Val(rulesCache).rules
        cooling(r, m) == \E c \in d.cooldownsBefore :
                            c.rule_id = r.id /\ c.scope_key = m.chatId /\ c.expires_at > d.at
        first(a, b) == \/ StatedPriority(rules[a]) < StatedPriority(rules[b])
                       \/ StatedPriority(rules[a]) = StatedPriority(rules[b]) /\ a < b
    IN \A a, b \in 1..Len(rules) :
         (/\ Len(rules) = 2
          /\ d.handed # <<>>
          /\ first(a, b)
          /\ \A x \in {a, b} :
                /\ rules[x].enabled = Some(TRUE)
                /\ matchRule(rules[x], d.handed[1]).matches
                /\ ~cooling(rules[x], d.handed[1]))
         => FiredBy(d) = IF rules[a].stop_on_match # Some(FALSE)
                           THEN <<rules[a].id>>
                           ELSE <<rules[a].id, rules[b].id>>

\* C5: when a rule with cooldown_seconds = c > 0 fired for an event of a chat,
\* it does not fire for a later event of the same chat handled less than c
\* seconds (of the Store's clock) after it.
C5_CooldownSuppresses ==
  \A i, j \in 1..Len(delivered) :
    \A k \in 1..Len(Val(rulesCache).rules) :
      LET r == Val(rulesCache).rules[k]
      IN (/\ i < j
          /\ Has(r.cooldown_seconds) /\ Val(r.cooldown_seconds) > 0
          /\ delivered[i].handed # <<>> /\ delivered[j].handed # <<>>
          /\ delivered[i].handed[1].chatId = delivered[j].handed[1].chatId
          /\ delivered[j].at - delivered[i].at < Val(r.cooldown_seconds)
          /\ InSeq(r.id, FiredBy(delivered[i])))
         => ~InSeq(r.id, FiredBy(delivered[j]))

C5_Witness ==
  \E i, j \in 1..Len(delivered) :
    \E k \in 1..Len(Val(rulesCache).rules) :
      LET r == Val(rulesCache).rules[k]
      IN /\ i < j
         /\ Has(r.cooldown_seconds) /\ Val(r.cooldown_seconds) > 0
         /\ delivered[i].handed # <<>> /\ delivered[j].handed # <<>>
         /\ delivered[i].handed[1].chatId = delivered[j].handed[1].chatId
         /\ delivered[j].at - delivered[i].at < Val(r.cooldown_seconds)
         /\ delivered[j].at > delivered[i].at
         /\ InSeq(r.id, FiredBy(delivered[i]))
         /\ matchRule(r, delivered[j].handed[1]).matches
         /\ r.id \in SkippedBy(delivered[j])

\* C6: a POST /api/rules/test leaves the RuleFire, cooldown and Message rows
\* as they were and makes no orchestrator call and no provider send.
C6_TestMessageReadOnly ==
  [][(lastOp'.op = "rules_test" /\ now' = now /\ delivered' = delivered)
     => UNCHANGED <<wa_rule_fire, wa_cooldown, wa_message, haCalls, waSends>>]_vars

C6_Witness ==
  /\ lastOp.op = "rules_test"
  /\ Has(lastOp.response.result)
  /\ Val(lastOp.response.result).matchedRules # <<>>
  /\ Val(lastOp.response.result).actionsPreview # <<>>
  /\ \E k \in 1..Len(Val(rulesCache).rules) :
        /\ Val(rulesCache).rules[k].id = Val(lastOp.response.result).matchedRules[1].id
        /\ Has(Val(rulesCache).rules[k].cooldown_seconds)
  /\ wa_rule_fire = <<>> /\ wa_cooldown = {} /\ haCalls = <<>> /\ waSends = <<>>

\* The id ends in one of the suffixes of a WhatsApp chat id.
ValidSuffix(id) == id.server \in {"s.whatsapp.net", "g.us", "c.us"}

\* C7: at most one sync job is running at any time, a refresh request made
\* while the progress state is fetching_groups, fetching_contacts or saving is
\* answered already_running, and no job starts in those states.
C7_SingleFlight ==
  [][/\ Cardinality(Running') <= 1
     /\ (refreshProgress.status \in Busy /\ lastOp' # lastOp /\ lastOp'.op = "chats_refresh")
          => (lastOp'.response.status = "already_running" /\ jobs' = jobs)
     /\ Len(jobs') > Len(jobs) => refreshProgress.status \notin Busy]_vars

C7_Witness ==
  /\ Running # {}
  /\ Len(jobs) = 2
  /\ refreshProgress.status = "saving"
  /\ lastOp.op = "chats_refresh"
  /\ lastOp.response.status = "already_running"

\* C8: a sync deletes a chat row only when the row's updated_at is strictly
\* older than the sync's start and its id has no valid suffix; a chat whose id
\* has a valid suffix is never deleted.
C8_DeletesOnlyStaleMalformed ==
  [][\A c \in DOMAIN wa_chat :
       c \notin DOMAIN wa_chat'
         => /\ ~ValidSuffix(c)
            /\ \E k \in 1..Len(jobs) :
                  /\ jobs[k].pc = "delete"
                  /\ jobs'[k].pc = "done"
                  /\ wa_chat[c].updated_at < jobs[k].requestedAt]_vars

\* C9: when a sync completes, every chat its group and contact listings
\* returned is in the chat table, whatever the difference between the
\* gateway's clock and the Store's, and no chat with a malformed id and an
\* updated_at strictly older than the sync's start is left.
C9_CompleteSyncHoldsUpstream ==
  [][\A k \in 1..Len(jobs) :
       (jobs[k].pc = "delete" /\ jobs'[k].pc = "done" /\ refreshProgress'.status = "complete")
         => /\ \A i \in 1..Len(jobs[k].groups) :
                  Has(jobs[k].groups[i].id) => Val(jobs[k].groups[i].id) \in DOMAIN wa_chat'
            /\ \A i \in 1..Len(jobs[k].contacts) :
                  Has(jobs[k].contacts[i].id) => Val(jobs[k].contacts[i].id) \in DOMAIN wa_chat'
            /\ \A c \in DOMAIN wa_chat' :
                  ~(~ValidSuffix(c) /\ wa_chat'[c].updated_at < jobs[k].requestedAt)]_vars

\* C10, first half: a PUT /api/rules with YAML text y replaces the stored row
\* by y, its serialised parse and the next version when validateYaml(y) is
\* valid, and leaves the row as it was otherwise.
C10_SaveStoresIffValid ==
  [][(lastOp'.op = "rules_put" /\ Has(lastOp'.body.yaml))
       => LET y == Val(lastOp'.body.yaml)
          IN IF validateYaml(y).valid
               THEN /\ wa_ruleset'.yaml_text = y
                    /\ wa_ruleset'.version = wa_ruleset.version + 1
               ELSE wa_ruleset' = wa_ruleset]_vars

\* C10: after any saves and reloads, made one at a time, the rule set the
\* engine caches is the rule set the stored parsed representation denotes.
C10_CacheEqualsStored ==
  /\ Has(rulesCache)
  /\ Has(wa_ruleset.parsed_json)
  /\ Val(rulesCache) = jsonParse(Val(wa_ruleset.parsed_json))

----------------------------------------------------------------------------
\* Claims about the webhook's answers, the matcher and the dispatch of actions.

\* The rule of the cached set with this id.
RuleById(id) ==
  LET rs == Val(rulesCache).rules
  IN rs[CHOOSE k \in 1..Len(rs) : rs[k].id = id]

\* The RuleFire rows one webhook invocation wrote.
RowsOf(d) == {d.firesBefore + k : k \in 1..(d.firesAfter - d.firesBefore)}

\* C11: every answer of POST /webhook/evolution has status 200: with a Store
\* that answers and with a Store that rejects every statement, with
\* collaborators that fail, and for an envelope the handler cannot read.
C11_AlwaysOk ==
  /\ \A i \in 1..Len(delivered) : delivered[i].response.status = 200
  /\ lastOp.op = "webhook" => lastOp.response.status = 200

C11_Witness ==
  /\ \E i \in 1..Len(delivered) :
        /\ delivered[i].event = EvMalformed
        /\ delivered[i].response.error
        /\ delivered[i].response.status = 200
  /\ \E i \in 1..Len(delivered), k \in 1..Len(wa_rule_fire) :
        /\ k \in RowsOf(delivered[i])
        /\ \E j \in 1..Len(wa_rule_fire[k].actions_executed) :
              wa_rule_fire[k].actions_executed[j].error = Some("orchestrator request failed")
        /\ delivered[i].response.status = 200
  /\ lastOp.op = "webhook"
  /\ lastOp.body = EvConnection
  /\ lastOp.response.error
  /\ lastOp.response.status = 200

\* A MESSAGES_UPSERT event with data.key.fromMe true.
IsSelfSent(e) ==
  /\ Has(e.event)
  /\ normaliseEventType(Val(e.event)) = Kind(<<"messages", "upsert">>)
  /\ KeyField(e.data, "fromMe") = Some(TRUE)

\* C12: every webhook invocation writes one event-log row, whatever the
\* event's kind; for a MESSAGES_UPSERT event with data.key.fromMe true that
\* row is written, no Message row is inserted, no chat is upserted and
\* nothing is handed to the rule engine.
C12_EventLogAlways ==
  [][Len(delivered') = Len(delivered) + 1
       => LET d == delivered'[Len(delivered')]
          IN /\ Len(wa_event_log') = Len(wa_event_log) + 1
             /\ IsSelfSent(d.event)
                  => /\ wa_message' = wa_message
                     /\ wa_chat' = wa_chat
                     /\ d.handed = <<>>]_vars

\* C12, second half: a self-sent MESSAGES_UPSERT is logged and goes no further.
C12_SelfSentLoggedOnly ==
  [][(Len(delivered') = Len(delivered) + 1 /\ IsSelfSent(delivered'[Len(delivered')].event))
       => /\ Len(wa_event_log') = Len(wa_event_log) + 1
          /\ wa_message' = wa_message
          /\ wa_chat' = wa_chat
          /\ wa_rule_fire' = wa_rule_fire
          /\ delivered'[Len(delivered')].handed = <<>>]_vars

\* The rule has an ha_service action whose service the allow-list lacks.
Refused(a) == a.type = "ha_service" /\ Has(a.service) /\ Val(a.service) \notin allowedServices

\* C13: no call for a service outside the allow-list reaches the orchestrator,
\* and a rule that fired with such an action has its RuleFire row, with
\* success false and the refused action's error in the row.
C13_RefusedNeverCalled ==
  /\ \A k \in 1..Len(haCalls) : haCalls[k].service \in allowedServices
  /\ \A i \in 1..Len(delivered) :
       LET d == delivered[i]
       IN /\ d.firesAfter - d.firesBefore = Len(FiredBy(d))
          /\ \A k \in 1..Len(FiredBy(d)) :
               LET row == wa_rule_fire[d.firesBefore + k]
                   r == RuleById(FiredBy(d)[k])
               IN \A j \in 1..Len(r.actions) :
                    Refused(r.actions[j])
                      => /\ row.rule_id = r.id
                         /\ ~row.success
                         /\ ~row.actions_executed[j].success
                         /\ Has(row.actions_executed[j].error)
                         /\ Has(row.error_message)
                         /\ InSeq(row.actions_executed[j].error, Val(row.error_message))

C13_Witness ==
  \E i \in 1..Len(delivered) :
    LET d == delivered[i]
    IN /\ FiredBy(d) = <<"r1", "r2">>
       /\ d.firesAfter = d.firesBefore + 2
       /\ Refused(RuleById("r1").actions[1])
       /\ wa_rule_fire[d.firesBefore + 1].rule_id = "r1"
       /\ ~wa_rule_fire[d.firesBefore + 1].success
       /\ wa_rule_fire[d.firesBefore + 1].error_message = Some(<<Some("service not allowed")>>)
       /\ Len(haCalls) = 2
       /\ \A k \in 1..2 : haCalls[k].service = "script.turn_on"

\* C14: the engine runs enabled rules in ascending order of their priority,
\* 0 and negative priorities included, rules of equal priority in the order
\* of the rule set, and never runs a disabled rule: of two matching rules,
\* neither on cooldown, the later one fires only after the earlier one has.
C14_PriorityOrder ==
  \A i \in 1..Len(delivered) :
    LET d == delivered[i]
        rs == Val(rulesCache).rules
        sorted == sortedRules(Val(rulesCache))
        at(id) == {k \in 1..Len(sorted) : sorted[k].id = id}
        fired(id) == {k \in 1..Len(FiredBy(d)) : FiredBy(d)[k] = id}
        first(a, b) == \/ StatedPriority(rs[a]) < StatedPriority(rs[b])
                       \/ StatedPriority(rs[a]) = StatedPriority(rs[b]) /\ a < b
    IN d.handed # <<>> =>
         /\ \A a, b \in 1..Len(rs) :
              (rs[a].enabled = Some(TRUE) /\ rs[b].enabled = Some(TRUE) /\ first(a, b))
                => /\ \A x \in at(rs[a].id), y \in at(rs[b].id) : x < y
                   /\ (/\ d.cooldownsBefore = {}
                       /\ matchRule(rs[a], d.handed[1]).matches
                       /\ fired(rs[b].id) # {})
                        => \E x \in fired(rs[a].id) : \A y \in fired(rs[b].id) : x < y
         /\ \A a \in 1..Len(rs) :
              rs[a].enabled = Some(FALSE)
                => at(rs[a].id) = {} /\ fired(rs[a].id) = {} /\ rs[a].id \notin SkippedBy(d)

\* C14 without priority 0: rules whose priority is not 0 run in ascending
\* order of priority, ties in the order of the rule set, disabled rules never.
C14_OrderOfNonZero ==
  \A i \in 1..Len(delivered) :
    LET d == delivered[i]
        rs == Val(rulesCache).rules
        sorted == sortedRules(Val(rulesCache))
        at(id) == {k \in 1..Len(sorted) : sorted[k].id = id}
        first(a, b) == \/ StatedPriority(rs[a]) < StatedPriority(rs[b])
                       \/ StatedPriority(rs[a]) = StatedPriority(rs[b]) /\ a < b
    IN d.handed # <<>> =>
         /\ \A a, b \in 1..Len(rs) :
              (/\ rs[a].enabled = Some(TRUE) /\ rs[b].enabled = Some(TRUE) /\ first(a, b)
               /\ rs[a].priority # Some(0) /\ rs[b].priority # Some(0))
                => \A x \in at(rs[a].id), y \in at(rs[b].id) : x < y
         /\ \A a \in 1..Len(rs) : rs[a].enabled = Some(FALSE) => at(rs[a].id) = {}

\* The actions of fired rules that satisfy P, as <<row, position>>.
ActionsRun(P(_)) ==
  UNION {{<<k, j>> : j \in {n \in 1..Len(RuleById(wa_rule_fire[k].rule_id).actions) :
                                P(RuleById(wa_rule_fire[k].rule_id).actions[n])}} :
           k \in 1..Len(wa_rule_fire)}

\* C15: the result list of every RuleFire row names the rule's actions, each
\* once and in list order, whatever failed; every reply action of a fired rule
\* was handed to the provider and every allowed service call to the
\* orchestrator.
C15_EveryActionAttempted ==
  /\ \A k \in 1..Len(wa_rule_fire) :
       LET row == wa_rule_fire[k]
           r == RuleById(row.rule_id)
       IN /\ Len(row.actions_executed) = Len(r.actions)
          /\ \A j \in 1..Len(r.actions) : row.actions_executed[j].type = r.actions[j].type
  /\ Len(waSends) = Cardinality(ActionsRun(LAMBDA a : a.type = "reply_whatsapp"))
  /\ Len(haCalls) = Cardinality(ActionsRun(LAMBDA a : a.type = "ha_service" /\ ~Refused(a)))

C15_Witness ==
  \E k \in 1..Len(wa_rule_fire) :
    LET row == wa_rule_fire[k]
    IN /\ row.rule_id = "r1"
       /\ Len(row.actions_executed) = 3
       /\ \A j \in 1..3 : ~row.actions_executed[j].success
       /\ row.actions_executed[2].error = Some("provider request failed")
       /\ row.actions_executed[3].error = Some("orchestrator request failed")
       /\ Len(waSends) >= 1
       /\ Len(haCalls) >= 1

\* C16: the success flag of a RuleFire row is true exactly when every entry
\* of its result list succeeded, and the list has one entry per action of the
\* rule.
C16_SuccessIsConjunction ==
  \A k \in 1..Len(wa_rule_fire) :
    LET row == wa_rule_fire[k]
    IN /\ row.success <=> \A j \in 1..Len(row.actions_executed) : row.actions_executed[j].success
       /\ Len(row.actions_executed) = Len(RuleById(row.rule_id).actions)

C16_Witness ==
  \E k, n \in 1..Len(wa_rule_fire) :
    /\ ~wa_rule_fire[k].success
    /\ Len(wa_rule_fire[k].actions_executed) = 3
    /\ ~wa_rule_fire[k].actions_executed[1].success
    /\ wa_rule_fire[k].actions_executed[2].success
    /\ wa_rule_fire[k].actions_executed[3].success
    /\ wa_rule_fire[n].success
    /\ Len(wa_rule_fire[n].actions_executed) = 1

\* The match clause imposes nothing but its list of events.
OnlyEvents(m) == Has(m.events) /\ ~Has(m.chat) /\ ~Has(m.sender) /\ ~Has(m.text)

\* C17: a rule that lists events does not fire for an event whose normalised
\* kind is not in the list.
C17_EventsRespected ==
  \A i \in 1..Len(delivered) :
    LET d == delivered[i]
    IN \A k \in 1..Len(FiredBy(d)) :
         LET r == RuleById(FiredBy(d)[k])
         IN Has(r.match.events) => InSeq(d.handed[1].event, Val(r.match.events))

\* C17 for events in the list: a rule that lists only MESSAGES_UPSERT and has
\* no other condition fires for a MESSAGES_UPSERT event handed to the engine.
C17_ListedKindFires ==
  \A i \in 1..Len(delivered) :
    LET d == delivered[i]
        rs == Val(rulesCache).rules
    IN (/\ d.handed # <<>>
        /\ Len(rs) = 1
        /\ OnlyEvents(rs[1].match)
        /\ InSeq(d.handed[1].event, Val(rs[1].match.events)))
       => FiredBy(d) = <<rs[1].id>>

\* Both sender.ids and sender.numbers are set.
BothSenderLists(m) ==
  /\ Has(m.sender)
  /\ Has(Val(m.sender).ids) /\ Val(Val(m.sender).ids) # <<>>
  /\ Has(Val(m.sender).numbers) /\ Val(Val(m.sender).numbers) # <<>>

\* C18: a rule that sets both sender.ids and sender.numbers fires only for an
\* event whose sender id is in sender.ids and whose sender id, up to '@', is
\* in sender.numbers.
C18_SenderIdsAndNumbers ==
  \A i \in 1..Len(delivered) :
    LET d == delivered[i]
    IN \A k \in 1..Len(FiredBy(d)) :
         LET r == RuleById(FiredBy(d)[k])
         IN BothSenderLists(r.match)
              => /\ InSeq(d.handed[1].senderId, Val(Val(r.match.sender).ids))
                 /\ InSeq(d.handed[1].senderId.user, Val(Val(r.match.sender).numbers))

\* C18 for sender.ids alone: a rule fires only for a sender in its sender.ids.
C18_SenderIdsRespected ==
  \A i \in 1..Len(delivered) :
    LET d == delivered[i]
    IN \A k \in 1..Len(FiredBy(d)) :
         LET r == RuleById(FiredBy(d)[k])
         IN (Has(r.match.sender) /\ Has(Val(r.match.sender).ids)
               /\ Val(Val(r.match.sender).ids) # <<>>)
              => InSeq(d.handed[1].senderId, Val(Val(r.match.sender).ids))

\* The match clause imposes no condition: it is empty, or all it holds is the
\* chat type `any` or id lists that are empty.
NoCondition(m) ==
  /\ ~Has(m.events)
  /\ ~Has(m.text)
  /\ Has(m.chat) => /\ Val(m.chat).type \in {None, Some("any")}
                    /\ Val(m.chat).ids \in {None, Some(<<>>)}
  /\ Has(m.sender) => /\ Val(m.sender).ids \in {None, Some(<<>>)}
                      /\ Val(m.sender).numbers \in {None, Some(<<>>)}

\* C19: a rule whose match clause imposes no condition matches every event
\* handed to the engine; alone in the rule set and without a cooldown, it
\* fires for each of them.
C19_NoConditionMatchesAll ==
  \A i \in 1..Len(delivered) :
    LET d == delivered[i]
        rs == Val(rulesCache).rules
    IN \A a \in 1..Len(rs) :
         (d.handed # <<>> /\ NoCondition(rs[a].match))
           => /\ matchRule(rs[a], d.handed[1]).matches
              /\ (Len(rs) = 1 /\ rs[a].enabled = Some(TRUE)) => FiredBy(d) = <<rs[a].id>>

\* C19 for the empty match clause alone.
C19_EmptyClauseMatchesAll ==
  \A i \in 1..Len(delivered) :
    LET d == delivered[i]
        rs == Val(rulesCache).rules
    IN \A a \in 1..Len(rs) :
         (d.handed # <<>> /\ rs[a].match = MatchNothingSet)
           => /\ matchRule(rs[a], d.handed[1]).matches
              /\ (Len(rs) = 1 /\ rs[a].enabled = Some(TRUE)) => FiredBy(d) = <<rs[a].id>>

\* String.prototype.trim, on the white space the model's texts use.
RECURSIVE trimStart(_)
trimStart(s) == IF s # <<>> /\ Head(s) = " " THEN trimStart(Tail(s)) ELSE s

RECURSIVE trimEnd(_)
trimEnd(s) == IF s # <<>> /\ s[Len(s)] = " " THEN trimEnd(SubSeq(s, 1, Len(s) - 1)) ELSE s

trim(s) == trimEnd(trimStart(s))

\* The clause has a text condition and nothing else.
OnlyText(m) == ~Has(m.events) /\ ~Has(m.chat) /\ ~Has(m.sender) /\ Has(m.text)

\* C20: a rule whose only condition is a starts_with prefix or a contains
\* list matches a text that, lower-cased and trimmed, starts with the prefix
\* or holds at least one pattern of the list; alone in the rule set and
\* without a cooldown it fires.
C20_CaseAndSpaceIgnored ==
  \A i \in 1..Len(delivered) :
    LET d == delivered[i]
        rs == Val(rulesCache).rules
        txt == Val(rs[1].match.text)
        given == toLowerCase(trim(d.handed[1].text))
        hit == \/ /\ Has(txt.starts_with) /\ ~Has(txt.contains) /\ ~Has(txt.regex)
                  /\ startsWith(given, toLowerCase(trim(Val(txt.starts_with))))
               \/ /\ Has(txt.contains) /\ ~Has(txt.starts_with) /\ ~Has(txt.regex)
                  /\ \E n \in 1..Len(Val(txt.contains)) :
                        includes(given, toLowerCase(trim(Val(txt.contains)[n])))
    IN (/\ d.handed # <<>>
        /\ Len(rs) = 1
        /\ rs[1].enabled = Some(TRUE)
        /\ ~Has(rs[1].cooldown_seconds)
        /\ OnlyText(rs[1].match)
        /\ hit)
       => FiredBy(d) = <<rs[1].id>>

\* C20 without white space around the text: letter case is ignored, and one
\* pattern of a contains list is enough.
C20_CaseIgnored ==
  \A i \in 1..Len(delivered) :
    LET d == delivered[i]
        rs == Val(rulesCache).rules
        txt == Val(rs[1].match.text)
        given == toLowerCase(d.handed[1].text)
        hit == \/ /\ Has(txt.starts_with) /\ ~Has(txt.contains) /\ ~Has(txt.regex)
                  /\ startsWith(given, toLowerCase(Val(txt.starts_with)))
               \/ /\ Has(txt.contains) /\ ~Has(txt.starts_with) /\ ~Has(txt.regex)
                  /\ \E n \in 1..Len(Val(txt.contains)) :
                        includes(given, toLowerCase(Val(txt.contains)[n]))
    IN (/\ d.handed # <<>>
        /\ Len(rs) = 1
        /\ rs[1].enabled = Some(TRUE)
        /\ ~Has(rs[1].cooldown_seconds)
        /\ OnlyText(rs[1].match)
        /\ hit)
       => FiredBy(d) = <<rs[1].id>>

----------------------------------------------------------------------------
\* What the listing properties read off an answer and off a returned list.

IdsOf(list) == {list[i].id : i \in 1..Len(list)}

NoDuplicateIds(list) == \A i, j \in 1..Len(list) : list[i].id = list[j].id => i = j

\* The JIDs an answering endpoint holds that satisfy P; none when it failed.
AnswerIds(ans, P(_)) ==
  IF ans.ok
    THEN {OrOpt(ans.data[i].id, ans.data[i].remoteJid) :
            i \in {n \in 1..Len(ans.data) : P(OrOpt(ans.data[n].id, ans.data[n].remoteJid))}}
    ELSE {}

AnyJid(id) == TRUE

IsGroupJid(id) == OptEndsWith(id, "g.us")

IsDirectJid(id) == OptEndsWith(id, "s.whatsapp.net") \/ OptEndsWith(id, "c.us")

Answered(ans) == ans.ok /\ Len(ans.data) > 0

----------------------------------------------------------------------------
\* Claims about the stored rule-set text.

\* The last request was a PUT /api/rules that saved its text.
Saved == lastOp.op = "rules_put" /\ lastOp.response.success

\* The last request saved the very text that GET /api/rules returned before it.
Resaved == Saved /\ Val(lastOp.body.yaml) = getRulesYaml(lastOp.before)

\* What a re-save leaves: the same text and parsed representation, and the
\* next version.
OnlyVersionChanged ==
  /\ wa_ruleset.yaml_text = lastOp.before.yaml_text
  /\ wa_ruleset.parsed_json = lastOp.before.parsed_json
  /\ wa_ruleset.version = lastOp.before.version + 1

\* C22: after a save of a valid text y, getRulesYaml returns the canonical
\* form of y (what yaml.dump makes of its parse); and a save of the text
\* getRulesYaml returned changes only the version, which increases.
C22_GetReturnsCanonical ==
  /\ Saved => getRulesYaml(wa_ruleset) = yamlDump(yamlLoad(Val(lastOp.body.yaml)).value)
  /\ Resaved => OnlyVersionChanged

\* C22, as the code has it: after a save of a valid text y, getRulesYaml
\* returns y itself, as it was sent; and a save of the text getRulesYaml
\* returned changes only the version, which increases.
C22_GetReturnsSavedText ==
  /\ Saved => getRulesYaml(wa_ruleset) = Val(lastOp.body.yaml)
  /\ Resaved => OnlyVersionChanged

\* A hand-written text with a rule in it was saved twice in a row: the text
\* stored is the one sent, which is not its canonical form.
C22_Witness ==
  /\ Resaved
  /\ lastOp.before.version > 1
  /\ Val(lastOp.body.yaml).doc.rules # <<>>
  /\ getRulesYaml(wa_ruleset) = Val(lastOp.body.yaml)
  /\ getRulesYaml(wa_ruleset) # yamlDump(yamlLoad(Val(lastOp.body.yaml)).value)
  /\ wa_ruleset.version = lastOp.before.version + 1

----------------------------------------------------------------------------
\* Claims about the rule set a run reads.

\* The cached rule set with every omitted `enabled` written out as true.
WithEnabledDefault(cache) ==
  IF ~Has(cache) THEN cache
  ELSE Some([Val(cache) EXCEPT !.rules =
               [i \in 1..Len(@) |-> [@[i] EXCEPT !.enabled = IF Has(@) THEN @ ELSE Some(TRUE)]]])

\* The message POST /api/rules/test builds from its body.
TestMessageOf(body) ==
  LET m == Val(body.message)
  IN [chatId |-> IF Has(m.chat_id) THEN Val(m.chat_id) ELSE NoJid,
      chatType |-> IF Has(m.chat_id) /\ endsWithServer(Val(m.chat_id), "g.us")
                     THEN "group" ELSE "direct",
      senderId |-> IF Has(m.sender_id) THEN Val(m.sender_id) ELSE NoJid,
      senderName |-> <<>>,
      text |-> OrText(m.text, <<>>)]

\* The world one webhook invocation handed to the engine, as far as the
\* engine's choice of rules depends on it.
WorldBefore(d) == [World EXCEPT !.wa_cooldown = d.cooldownsBefore]

\* C23: a rule that omits `enabled` is treated as enabled: processMessage and
\* testMessage evaluate the cached rule set exactly as they evaluate the same
\* set with `enabled: true` written into every rule that omits it.
C23_OmittedEnabledIsEnabled ==
  /\ \A k \in 1..Len(delivered) :
       LET d == delivered[k]
       IN d.handed # <<>> =>
            d.trace = processMessage(WithEnabledDefault(rulesCache), d.handed[1], None,
                                     WorldBefore(d), [ha |-> TRUE, wa |-> TRUE], d.at).trace
  /\ (lastOp.op = "rules_test" /\ Has(lastOp.response.result)) =>
       Val(lastOp.response.result) =
         testMessage(WithEnabledDefault(rulesCache), TestMessageOf(lastOp.body), World).result

----------------------------------------------------------------------------
\* Claims about the order of the steps of one webhook invocation.

\* The engine has been invoked for run k.
EngineInvoked(k) == runs[k].engine # "none"

\* The runs that inserted Message row m.
InsertedBy(m) == {k \in 1..Len(runs) : runs[k].dbMessageId = m}

RuleSetOf(k) == IF Has(runs[k].startedWith) THEN sortedRules(Val(runs[k].startedWith)) ELSE <<>>

\* C27: a processMessage run evaluates rules of exactly one version of the
\* rule set: whatever saves and reloads complete while the run is suspended,
\* the rules it evaluates are, in order, rules of the set that was cached when
\* it began, never rules of a later set.
C27_OneRuleSetPerRun ==
  \A k \in 1..Len(runs) :
    /\ Len(runs[k].evaluated) <= Len(RuleSetOf(k))
    /\ \A j \in 1..Len(runs[k].evaluated) : runs[k].evaluated[j] = RuleSetOf(k)[j]

\* A run has evaluated two rules of the set it began with, while the cache
\* holds a set saved later, which has neither rule.
C27_Witness ==
  \E k \in 1..Len(runs) :
    /\ Len(runs[k].evaluated) = 2
    /\ runs[k].startedWith # rulesCache
    /\ wa_ruleset.version > 2
    /\ runs[k].evaluated[2] = RuleSetOf(k)[2]
    /\ \A j \in 1..Len(sortedRules(Val(rulesCache))), n \in 1..2 :
         sortedRules(Val(rulesCache))[j] # runs[k].evaluated[n]

----------------------------------------------------------------------------
\* Claims about a rule on cooldown.

\* Rule r is on cooldown for the chat of the message that invocation d handed
\* to the engine.
Cooling(d, r) ==
  \E c \in d.cooldownsBefore :
     c.rule_id = r.id /\ c.scope_key = d.handed[1].chatId /\ c.expires_at > d.at

\* The cached rule set without the rules on cooldown for d.
WithoutCooling(d) ==
  Some([Val(rulesCache) EXCEPT !.rules = SelectSeq(@, LAMBDA r : ~Cooling(d, r))])

\* What the engine noted of the rules it did not skip.
Unskipped(trace) == SelectSeq(trace, LAMBDA x : x.log # "cooldown")

\* C25, the run: a rule on cooldown for the event's chat is skipped before it
\* is matched, executes no action, writes no RuleFire and does not stop the
\* chain: but for the skip, the run is the run of the rule set without it.
C25_CooldownSkipsQuietly ==
  \A i \in 1..Len(delivered) :
    LET d == delivered[i]
        rest == processMessage(WithoutCooling(d), d.handed[1], None, WorldBefore(d),
                               [ha |-> TRUE, wa |-> TRUE], d.at)
    IN d.handed # <<>> =>
         /\ Unskipped(d.trace) = rest.trace
         /\ \A k \in 1..Len(Val(rulesCache).rules) :
              LET r == Val(rulesCache).rules[k]
              IN Cooling(d, r) =>
                   /\ ~InSeq(r.id, FiredBy(d))
                   /\ \A n \in RowsOf(d) : wa_rule_fire[n].rule_id # r.id

\* C25: a rule on cooldown for the event's chat is skipped as above, and the
\* engine's result reports it as evaluated but skipped, with the reason
\* `cooldown active`.
C25_CooldownSkipReported ==
  /\ C25_CooldownSkipsQuietly
  /\ \A i \in 1..Len(delivered) :
       LET d == delivered[i]
           result == processMessageResult(rulesCache, d.handed[1])
       IN d.handed # <<>> =>
            \A id \in SkippedBy(d) :
               /\ Has(result)
               /\ \E n \in 1..Len(Val(result).evaluatedRules) :
                    LET e == Val(result).evaluatedRules[n]
                    IN e.id = id /\ ~e.matched /\ e.skippedCooldown
                       /\ e.reason = "cooldown active"

\* A rule with stop_on_match true that matches was skipped on cooldown, and
\* the rule after it fired.
C25_Witness ==
  \E i \in 1..Len(delivered) :
    LET d == delivered[i]
    IN /\ d.handed # <<>>
       /\ \E k \in 1..Len(Val(rulesCache).rules) :
            LET r == Val(rulesCache).rules[k]
            IN /\ Cooling(d, r) /\ r.id \in SkippedBy(d)
               /\ r.stop_on_match # Some(FALSE)
               /\ matchRule(r, d.handed[1]).matches
       /\ Len(FiredBy(d)) = 1

----------------------------------------------------------------------------
\* Claims about events of other kinds than MESSAGES_UPSERT.

\* The normalised kind of an envelope.
KindOf(e) == normaliseEventType(IF Has(e.event) THEN Val(e.event) ELSE EmptyKind)

IsUpsertKind(e) == KindOf(e) = Kind(<<"messages", "upsert">>)

\* The invocation just recorded handed the engine one event of the envelope's
\* kind with an empty text, and inserted no Message row.
HandedOnceAsGeneric ==
  LET d == delivered'[Len(delivered')]
  IN /\ Len(d.handed) = 1
     /\ d.handed[1].event = KindOf(d.event)
     /\ d.handed[1].text = <<>>
     /\ wa_message' = wa_message

\* Either spelling of the kind of a MESSAGES_UPSERT envelope has the same
\* outcome, in the Store, at the collaborators and in the response.
SpellingIgnored(e) ==
  \A env \in Envs :
    postEvolution(World, rulesCache, [e EXCEPT !.event = Some(UpsertDotted)], env, now)
      = postEvolution(World, rulesCache, [e EXCEPT !.event = Some(UpsertUpper)], env, now)

\* C26: for every webhook event whose normalised kind is not MESSAGES_UPSERT
\* the rule engine is invoked exactly once, with an event of that kind and an
\* empty text, and no Message row is inserted; and an event of kind
\* `messages.upsert` is handled as one of kind `MESSAGES_UPSERT`.
C26_GenericHandedOnce ==
  [][Len(delivered') = Len(delivered) + 1
       => LET d == delivered'[Len(delivered')]
          IN /\ ~IsUpsertKind(d.event) => HandedOnceAsGeneric
             /\ IsUpsertKind(d.event) => SpellingIgnored(d.event)]_vars

\* C26, for envelopes that carry a data member: the same.
C26_GenericWithDataHandedOnce ==
  [][Len(delivered') = Len(delivered) + 1
       => LET d == delivered'[Len(delivered')]
          IN /\ (~IsUpsertKind(d.event) /\ Has(d.event.data)) => HandedOnceAsGeneric
             /\ IsUpsertKind(d.event) => SpellingIgnored(d.event)]_vars

\* A CONNECTION_UPDATE event and a `messages.upsert` event were handled: the
\* first was handed to the engine with an empty text, the second inserted its
\* Message row.
C26_Witness ==
  \E i, j \in 1..Len(delivered) :
    /\ delivered[i].event = EvConnection
    /\ Len(delivered[i].handed) = 1
    /\ delivered[i].handed[1].event = Kind(<<"connection", "update">>)
    /\ delivered[i].handed[1].text = <<>>
    /\ delivered[j].event = EvM1
    /\ Val(EvM1.event) # UpsertUpper
    /\ RowsWithId(ProviderId(EvM1)) # {}
    /\ Len(wa_message) = 1

----------------------------------------------------------------------------
\* Claims about the progress of a sync.

Ended == {"complete", "error"}

\* The status a sync may take next.
StatusAfter(s) ==
  CASE s = "fetching_groups" -> {"fetching_contacts"}
    [] s = "fetching_contacts" -> {"saving"}
    [] s = "saving" -> Ended
    [] s = "complete" -> {"idle", "fetching_groups"}
    [] OTHER -> {"fetching_groups"}

\* C28: a sync answers `started` before any of its fetches has completed; its
\* progress goes through fetching_groups, fetching_contacts and saving in that
\* order; when every call it awaits returns it ends in complete or error; and
\* a failed fetch of groups or contacts is not what brings the error state,
\* which follows saving only.
C28_SyncProgresses ==
  /\ [][/\ (lastOp' # lastOp /\ lastOp'.op = "chats_refresh" /\ lastOp'.response.success)
             => /\ lastOp'.response.status = "started"
                /\ refreshProgress'.status = "fetching_groups"
                /\ jobs'[Len(jobs')].pc = "listGroups"
                /\ Len(jobs') = Len(jobs) + 1
        /\ refreshProgress'.status # refreshProgress.status
             => refreshProgress'.status \in StatusAfter(refreshProgress.status)
        /\ \A k \in 1..Len(jobs) :
             (jobs[k].pc \in {"listGroups", "listContacts"} /\ jobs'[k].pc # jobs[k].pc)
               => refreshProgress'.status \notin Ended]_vars
  /\ \A k \in 1..MaxSyncs :
       (Len(jobs) >= k) ~> (Len(jobs) >= k /\ jobs[k].pc = "done")
  /\ (refreshProgress.status \in Busy) ~> (refreshProgress.status \in Ended)

\* A sync whose every fetch failed has ended, in the state complete.
C28_Witness ==
  /\ upstream = UpstreamDown
  /\ Len(jobs) = 1 /\ jobs[1].pc = "done"
  /\ jobs[1].groups = <<>> /\ jobs[1].contacts = <<>>
  /\ refreshProgress.status = "complete"
  /\ lastOp.op = "chats_refresh" /\ lastOp.response.status = "started"

----------------------------------------------------------------------------
\* Claims about a sync whose transaction fails.

\* Job k's transaction threw at this step.
SaveThrew(k) == jobs[k].pc = "transaction" /\ Has(jobs'[k].threw)

\* C29: the sync upsert is all-or-nothing.  When a statement of the
\* transaction fails, no chat row written by this sync is persisted (the table
\* is as the transaction found it), the job ends without running the
\* reconciliation DELETE, and the progress becomes `error` with the message
\* that was thrown.
C29_UpsertAllOrNothing ==
  [][\A k \in 1..Len(jobs) :
       /\ SaveThrew(k) =>
            /\ wa_chat' = wa_chat
            /\ jobs'[k].pc = "done"
            /\ refreshProgress'.status = "error"
            /\ refreshProgress'.error = jobs'[k].threw
       /\ Has(jobs[k].threw) => jobs'[k].pc = "done" /\ jobs[k].pc = "done"]_vars

\* The transaction of a sync that had three chats to write failed, the
\* progress shows the error thrown, and the table holds a chat of the sync
\* no more than it did before.
C29_Witness ==
  \E k \in 1..Len(jobs) :
     /\ Has(jobs[k].threw) /\ jobs[k].pc = "done"
     /\ Len(jobs[k].allChats) = 3
     /\ \E i \in 1..Len(jobs[k].allChats) : Val(jobs[k].allChats[i].id) \notin DOMAIN wa_chat
     /\ refreshProgress.status = "error"
     /\ refreshProgress.error = jobs[k].threw

----------------------------------------------------------------------------
\* Claims about creating an instance.

\* How many instances named n the provider holds.
Held(up, n) == Cardinality({i \in 1..Len(up.instances) : up.instances[i] = n})

\* A create request for n reached the provider before.
CreatedBefore(up, n) ==
  \E i \in 1..Len(up.requests) : up.requests[i].instanceName = n /\ up.requests[i].reached

\* This step is a call of createInstance that reached the provider.
CalledAndReached ==
  /\ Len(upstream'.requests) = Len(upstream.requests) + 1
  /\ upstream'.requests[Len(upstream'.requests)].reached

----------------------------------------------------------------------------
\* Claims about when a cooldown is written.

\* The RuleFire rows this step writes.
NewFires == {n \in 1..Len(wa_rule_fire') : n > Len(wa_rule_fire)}

\* The rule of the cached rule set that RuleFire row f names.
RuleOf(f) ==
  LET rs == Val(rulesCache).rules
  IN rs[CHOOSE k \in 1..Len(rs) : rs[k].id = f.rule_id]

\* The cooldown seconds a rule states, 0 when it states none.
CooldownOf(r) == IF Has(r.cooldown_seconds) THEN Val(r.cooldown_seconds) ELSE 0

\* After this step the cooldown table holds the row that the fire recorded
\* in f wrote: (rule id, chat id) expiring cooldown_seconds after the fire.
CooldownWrittenFor(f) ==
  \E c \in wa_cooldown' :
     /\ c.rule_id = f.rule_id /\ c.scope_key = f.chat_id
     /\ c.expires_at = f.fired_at + CooldownOf(RuleOf(f))
     /\ c.expires_at > f.fired_at

\* Every cooldown row this step adds belongs to a fire of this step.
OnlyFiresWriteCooldowns ==
  \A c \in wa_cooldown' \ wa_cooldown :
     \E n \in NewFires :
        wa_rule_fire'[n].rule_id = c.rule_id /\ wa_rule_fire'[n].chat_id = c.scope_key

\* C31, as claimed: a cooldown for (rule id, chat id) is written only after
\* the rule's actions were dispatched successfully and only when
\* cooldown_seconds > 0, so that a fire in which an action failed leaves no
\* cooldown row.
C31_CooldownOnlyAfterSuccess ==
  [][/\ OnlyFiresWriteCooldowns
     /\ \A n \in NewFires :
          LET f == wa_rule_fire'[n]
          IN CooldownWrittenFor(f) <=> (f.success /\ CooldownOf(RuleOf(f)) > 0)]_vars

\* C31, as the engine does it: a cooldown for (rule id, chat id) is written
\* only by a fire of that rule for that chat, after its actions were
\* dispatched, whether or not they succeeded, and exactly when
\* cooldown_seconds > 0; a rule with cooldown_seconds absent or 0 never writes
\* one.
C31_CooldownAfterDispatch ==
  [][/\ OnlyFiresWriteCooldowns
     /\ \A n \in NewFires :
          LET f == wa_rule_fire'[n]
          IN CooldownWrittenFor(f) <=> CooldownOf(RuleOf(f)) > 0]_vars

\* A fire in which an action failed has just left its cooldown row.
C31_Witness ==
  /\ \E n \in 1..Len(wa_rule_fire) :
       LET f == wa_rule_fire[n]
       IN /\ ~f.success
          /\ [rule_id |-> f.rule_id, scope_key |-> f.chat_id,
              expires_at |-> f.fired_at + CooldownOf(RuleOf(f))] \in wa_cooldown
          /\ CooldownOf(RuleOf(f)) > 0
          /\ f.fired_at = now
  /\ Len(delivered) > 0

----------------------------------------------------------------------------
\* Claims about concurrent saves.

\* Every saveRules call made so far has returned.
AllReturned == \A k \in 1..Len(runs) : runs[k].pc = "returned"

\* The calls that wrote the row.
Writers == {k \in 1..Len(runs) : Has(runs[k].wrote)}

\* The calls returned in the order in which the Store executed their UPDATEs.
ReturnedAsWritten ==
  \A j, k \in Writers :
     (Has(runs[j].returned) /\ Has(runs[k].returned)
      /\ Val(runs[j].wrote) < Val(runs[k].wrote))
       => Val(runs[j].returned) < Val(runs[k].returned)

\* C32: under concurrent saveRules calls with different valid rule sets, once
\* all calls have returned, the rule set cached in the engine equals the
\* parsed representation in the Store's rule-set row.
C32_CacheIsLastWritten ==
  (AllReturned /\ Writers # {}) => rulesCache = reloadRules(wa_ruleset)

\* The same, for calls that returned in the order in which their UPDATEs
\* were executed.
C32_CacheIsLastWrittenInOrder ==
  (AllReturned /\ Writers # {} /\ ReturnedAsWritten) => rulesCache = reloadRules(wa_ruleset)

\* Two calls with different rule sets overlapped and returned in the order
\* of their UPDATEs.
C32_InOrderWitness ==
  /\ AllReturned /\ Cardinality(Writers) = 2 /\ ReturnedAsWritten
  /\ runs[1].yamlText # runs[2].yamlText
  /\ Val(runs[2].wrote) < Val(runs[1].wrote)

----------------------------------------------------------------------------
\* Claims about the version of the rule set.

\* This step is a PUT /api/rules that carried a text.
PutWithText == lastOp'.op = "rules_put" /\ Has(lastOp'.body.yaml)

----------------------------------------------------------------------------
\* Claims about the chat table under syncs, webhook events and the operator.

\* The last request of the chat routes was a PATCH that set `enabled` of a
\* chat the table held; only steps of sync jobs, webhook events and the clock
\* followed it.
OperatorSet(c, v) ==
  /\ lastOp.op = "chats_patch" /\ lastOp.chatId = c
  /\ lastOp.found /\ lastOp.body.enabled = Some(v)

\* C34: the enabled flag of an existing chat changes only through the
\* operator's PATCH: whatever syncs and webhook events follow the PATCH, the
\* chat, when the table holds it, has the value the operator gave it, also
\* after it was deleted and created again.
C34_EnabledOnlyByOperator ==
  \A c \in PatchedChats, v \in BOOLEAN :
     (OperatorSet(c, v) /\ c \in DOMAIN wa_chat) => wa_chat[c].enabled = v

\* C34, the rows that stay: a step that is not a PATCH changes `enabled` of
\* no row it leaves in the table, and a webhook event changes of an existing
\* row only last_message_at and the row's updated_at.
C34_KeptRowsKeepEnabled ==
  [][\A c \in DOMAIN wa_chat \cap DOMAIN wa_chat' :
       /\ wa_chat'[c].enabled # wa_chat[c].enabled
            => (lastOp'.op = "chats_patch" /\ lastOp'.chatId = c /\ wa_chat' # wa_chat
                /\ jobs' = jobs /\ delivered' = delivered)
       /\ delivered' # delivered
            => [wa_chat'[c] EXCEPT !.last_message_at = <<>>, !.updated_at = 0]
                 = [wa_chat[c] EXCEPT !.last_message_at = <<>>, !.updated_at = 0]]_vars

\* The operator disabled a chat, a sync deleted it and a webhook event has
\* created it again.
C34_Witness ==
  /\ OperatorSet(ChatOld, FALSE)
  /\ ChatOld \in DOMAIN wa_chat
  /\ wa_chat[ChatOld].created_at > 0
  /\ \E k \in 1..Len(jobs) : jobs[k].pc = "done" /\ refreshProgress.status = "complete"

----------------------------------------------------------------------------
\* Claims about a sync and the webhook events that arrive while it runs.

\* A webhook event touched chat c at a Store instant later than t.
TouchedAfter(c, t) ==
  \E i \in 1..Len(delivered) :
     /\ delivered[i].handed # <<>>
     /\ delivered[i].handed[1].chatId = c
     /\ delivered[i].at > t

\* Job k runs its reconciliation DELETE at this step.
Reconciles(k) == jobs[k].pc = "delete" /\ jobs'[k].pc = "done"

\* C35: a chat row inserted or updated by webhook ingestion after a sync was
\* started is not deleted by that sync's reconciliation.
C35_SyncSparesLaterChats ==
  [][\A k \in 1..Len(jobs) :
       Reconciles(k) =>
         \A c \in DOMAIN wa_chat \ DOMAIN wa_chat' : ~TouchedAfter(c, jobs[k].requestedAt)]_vars

\* C35, for the rows touched from the instant on at which the job took its
\* syncStartTime: the reconciliation deletes none of them that has a valid id.
C35_SyncSparesChatsAfterCutOff ==
  [][\A k \in 1..Len(jobs) :
       Reconciles(k) =>
         \A c \in DOMAIN wa_chat \ DOMAIN wa_chat' :
            NotLikeValid(c) \/ ~TouchedAfter(c, jobs[k].syncStartTime - 1)]_vars

\* A sync has run its DELETE after a webhook event touched, later than the
\* sync's start, a chat that is still there.
C35_Witness ==
  \E k \in 1..Len(jobs) :
     /\ jobs[k].pc = "done" /\ ~Has(jobs[k].threw)
     /\ TouchedAfter(ChatOld, jobs[k].requestedAt)
     /\ ChatOld \in DOMAIN wa_chat
     /\ wa_chat[ChatOld].updated_at >= jobs[k].syncStartTime
     /\ wa_chat[ChatOld].created_at = 0


----------------------------------------------------------------------------
\* Claims about deliveries of one event handled at the same time.

\* Runs j and k are two deliveries of one event with a provider message id.
SameDelivery(j, k) ==
  /\ j # k
  /\ runs[j].locals = runs[k].locals
  /\ runs[j].locals.messageId # <<>>

\* C36: when two deliveries of the same MESSAGES_UPSERT event (same non-empty
\* provider message id) are handled concurrently, at most one Message row
\* with that id exists, the rule engine is invoked for at most one of the
\* two, and both are answered 200.
C36_ConcurrentDuplicates ==
  \A j, k \in 1..Len(runs) :
     SameDelivery(j, k) =>
       /\ Cardinality(findMessageId(wa_message, runs[j].locals.messageId)) <= 1
       /\ ~(EngineInvoked(j) /\ EngineInvoked(k))
       /\ \A r \in {j, k} : runs[r].pc = "done" => routeResponse(runs[r]).status = 200

\* Two deliveries of one event both found no row in their dedup SELECT; one
\* wrote the row and ran the engine, the INSERT of the other was rejected,
\* and both are over.
C36_Witness ==
  /\ Len(runs) = 2
  /\ SameDelivery(1, 2)
  /\ runs[1].pc = "done" /\ runs[2].pc = "done"
  /\ \E j, k \in 1..2 :
        /\ j # k
        /\ runs[j].threw /\ runs[j].dbMessageId = 0 /\ ~EngineInvoked(j)
        /\ EngineInvoked(k) /\ runs[k].dbMessageId # 0
  /\ Cardinality(findMessageId(wa_message, runs[1].locals.messageId)) = 1

\* Runs j and k are over, and are deliveries of two distinct events that both
\* lack a provider message id.
DistinctIdless(j, k) ==
  /\ runs[j].locals # runs[k].locals
  /\ runs[j].locals.messageId = <<>> /\ runs[k].locals.messageId = <<>>
  /\ runs[j].pc = "done" /\ runs[k].pc = "done"

\* Run k has written a Message row of its own.
Persisted(k) ==
  /\ runs[k].dbMessageId \in 1..Len(wa_message)
  /\ wa_message[runs[k].dbMessageId].text = runs[k].locals.text

\* C37: two distinct MESSAGES_UPSERT events that both lack a provider message
\* id are both persisted as Message rows and both evaluated by the rule
\* engine; an id-less message is never skipped as a duplicate of an earlier
\* id-less message.
C37_IdlessNeverDuplicates ==
  \A j, k \in 1..Len(runs) :
     DistinctIdless(j, k) =>
       /\ Persisted(j) /\ Persisted(k)
       /\ EngineInvoked(j) /\ EngineInvoked(k)

\* C37, what the code does with the first of them: a message without id that
\* finds no row with the empty id is persisted under the empty id, and the
\* engine is invoked for it.
C37_FirstIdlessPersisted ==
  \A k \in 1..Len(runs) :
     (runs[k].locals.messageId = <<>> /\ runs[k].pc = "done" /\ ~runs[k].threw
        /\ runs[k].dbMessageId # 0)
       => /\ Persisted(k) /\ EngineInvoked(k)
          /\ wa_message[runs[k].dbMessageId].provider_message_id = <<>>

\* Two distinct messages without id have been handled one after the other;
\* there is one Message row.
C37_SkippedWitness ==
  /\ Len(runs) = 2 /\ DistinctIdless(1, 2)
  /\ ~runs[2].threw /\ runs[2].dbMessageId = 0
  /\ Len(wa_message) = 1

----------------------------------------------------------------------------
\* Claims about Message rows whose handler raised after the INSERT.

\* Message row m has been inserted and marked processed.
Marked(m) == m <= Len(wa_message) /\ wa_message[m].processed

\* Run k is a delivery of the event of run j, received when run j was over
\* (receivedAfter is history: the invocations over when the event arrived).
LaterDelivery(j, k) ==
  /\ j \in runs[k].receivedAfter
  /\ runs[j].locals = runs[k].locals

\* Message row m has been inserted, and the event it came from has been
\* delivered again after the invocation that inserted it was over.
Redelivered(m) ==
  /\ m <= Len(wa_message)
  /\ \E j \in InsertedBy(m), k \in 1..Len(runs) : LaterDelivery(j, k)

\* C38: every Message row inserted by the webhook is eventually marked
\* processed; when the engine raises after the row was inserted, a later
\* delivery of the same event evaluates and marks it.
C38_EveryRowMarked ==
  \A m \in 1..MaxRuns : Redelivered(m) ~> Marked(m)

\* C38, what the code does: once the invocation that inserted a row is over
\* without having marked it, no step marks the row.
C38_AbandonedRowStays ==
  [][\A m \in 1..Len(wa_message) :
       (~wa_message[m].processed /\ \A k \in InsertedBy(m) : runs[k].pc = "done")
         => ~wa_message'[m].processed]_vars

\* The engine raised for a row, and a later delivery of the same event has
\* been skipped as a duplicate; the row is not marked.
C38_AbandonedWitness ==
  /\ Len(runs) = 2
  /\ LaterDelivery(1, 2)
  /\ runs[1].pc = "done" /\ runs[1].engine = "threw" /\ runs[1].dbMessageId = 1
  /\ runs[2].pc = "done" /\ ~runs[2].threw /\ runs[2].dbMessageId = 0
  /\ ~wa_message[1].processed

----------------------------------------------------------------------------
\* Claims about the reset timers of successive syncs.

\* The setTimeout callback of timer tm runs at this step.
Fires(tm) == tm \in timers /\ timers' = timers \ {tm}

\* The progress state goes from `complete` to `idle` at this step.
CompleteToIdle == refreshProgress.status = "complete" /\ refreshProgress'.status = "idle"

\* The sync whose completion the state `complete` reports: a request for a
\* new sync overwrites the state, so it is the last job started.
CompletedSync == Len(jobs)

\* C39: the state `complete` of a sync returns to `idle` only through the
\* timer armed at that same sync's completion; a timer armed by an earlier
\* sync never resets a later sync's `complete`, and no timer changes a state
\* other than `complete`.
C39_OwnTimerResets ==
  [][/\ CompleteToIdle => \E tm \in timers : Fires(tm) /\ tm.job = CompletedSync
     /\ \A tm \in timers :
          Fires(tm) /\ refreshProgress.status # "complete"
            => refreshProgress' = refreshProgress]_vars

\* C39, the parts the callback keeps: `complete` returns to `idle` only in a
\* timer's callback, and a callback changes no state other than `complete`.
C39_OnlyTimersResetComplete ==
  [][/\ CompleteToIdle => \E tm \in timers : Fires(tm)
     /\ \A tm \in timers :
          Fires(tm) /\ refreshProgress.status # "complete"
            => refreshProgress' = refreshProgress]_vars

\* The second sync's `complete` has been reset to `idle` while the second
\* sync's own timer is not yet due.
C39_EarlyResetWitness ==
  /\ Len(jobs) = 2
  /\ jobs[2].pc = "done" /\ ~Has(jobs[2].threw)
  /\ refreshProgress.status = "idle"
  /\ \E tm \in timers : tm.job = 2 /\ tm.due > now

----------------------------------------------------------------------------
\* Claims that compare testMessage with processMessage.

\* The rule ids of the RuleFire rows that delivery i wrote, in order.
FiredIds(i) ==
  [n \in 1..(delivered[i].firesAfter - delivered[i].firesBefore) |->
     wa_rule_fire[delivered[i].firesBefore + n].rule_id]

\* The rule ids testMessage reports for the message delivery i handed to
\* processMessage, in order.
TestedIds(i) ==
  LET matched == testMessage(rulesCache, delivered[i].handed[1], World).result.matchedRules
  IN [n \in 1..Len(matched) |-> matched[n].id]

\* When delivery i arrived, no cooldown was active for its chat.
NoActiveCooldown(i) ==
  ~\E c \in delivered[i].cooldownsBefore :
      c.scope_key = delivered[i].handed[1].chatId /\ c.expires_at > delivered[i].at

\* C40: for every rule set and message with no active cooldown, the ordered
\* list of rule ids in testMessage's matchedRules equals the ordered list of
\* the rules for which processMessage writes a RuleFire for that message.
C40_TestAgreesWithProcess ==
  \A i \in 1..Len(delivered) :
     (delivered[i].handed # <<>> /\ NoActiveCooldown(i)) => TestedIds(i) = FiredIds(i)

\* A delivery fired several rules in the order of their priorities, which is
\* not the order of the rule set.
C40_Witness ==
  \E i \in 1..Len(delivered) :
     /\ delivered[i].handed # <<>> /\ NoActiveCooldown(i)
     /\ Len(FiredIds(i)) > 2
     /\ FiredIds(i)[1] = Val(rulesCache).rules[2].id
     /\ FiredIds(i)[2] = Val(rulesCache).rules[1].id

\* A delivery that found an expired cooldown row fired the rule again.
C40_ExpiredWitness ==
  \E i \in 1..Len(delivered) :
     /\ delivered[i].handed # <<>> /\ NoActiveCooldown(i)
     /\ delivered[i].cooldownsBefore # {}
     /\ Len(FiredIds(i)) > 0
====
